---- MODULE Spec2Model ----
(***************************************************************************)
(* Model of the claude-sentient orchestration core:                        *)
(*   - SessionManager (sdk/python/claude_sentient/session.py): cached      *)
(*     session state, dirty flag, batched writes, fork and merge_fork;     *)
(*   - QualityGates (sdk/python/claude_sentient/gates.py): run_gate.       *)
(* Python objects that are shared by reference (the cost_by_phase and      *)
(* cost_by_model dictionaries) live in a heap of cells; a SessionState     *)
(* holds their addresses.  Files hold values (json.dumps(asdict(state))).  *)
(***************************************************************************)
EXTENDS Integers, Sequences, FiniteSets, TLC

\* ---------------------------------------------------------------- bounds
\* Mutations a behaviour applies; more where a fork and its parent both change.
MaxMutations == 1
MaxMergeMutations == 2
MaxRuns == 2
\* Tokens in one text handed to phase extraction.
MaxContent == 2
\* The largest iteration ceiling a loop is started with.
MaxIterations == 3
\* The latest time the clock reaches.
MaxClock == 2
\* Calls that change a ledger in a behaviour of SpecBudget.
MaxLedgerOps == 4
\* Driver updates and hook events that change a session in a behaviour of
\* SpecHooks.
MaxHookEvents == 3
\* The longest command, in words, and the longest path, in segments.
MaxWords == 3
MaxSegments == 2
\* PreCompact events and iteration bumps in a run of the backup ring.
MaxCompactEvents == 12
\* SubagentStart and SubagentStop events in a run of the agent tables.
MaxAgentEvents == 3
\* Calls that change a table in a run of the handlers over incomplete events.
MaxPayloadEvents == 2

\* ---------------------------------------------------------------- values
\* Python's None, for a SessionState | None and for a missing file.
None == [none |-> TRUE]
\* None for the optional scalars: a session id is a pair <<kind, id>>, a
\* budget b is <<b>>, a phase or model tag t is <<t>>..
NoId == <<>>
NoBudget == <<>>
NoTag == <<>>
EmptyDict == [k \in {} |-> 0]

\* ---------------------------------------------------------------- inputs
\* The SessionManager objects of a run: the one the orchestrator constructs
\* over .claude/state, and the one fork() returns.
Root == "root"
Stores == {"root", "fork"}
\* The ids the id generator (timestamp and uuid4) yields during a run.
IdPool == {"id-1", "id-2"}
\* Addresses of dictionary objects: two per SessionState.
Refs == {"d1", "d2", "d3", "d4"}

PhaseInputs == {"execute"}
CommitInputs == {"c1", "c2"}
FileInputs == {"a.py", "b.py"}
GateUpdateInputs == {<<"lint", "passed">>, <<"lint", "failed">>, <<"test", "passed">>}
\* add_cost(amount, phase, model): the two tags are optional, each or both.
CostTagInputs ==
    {<<NoTag, NoTag>>, <<<<"plan">>, NoTag>>, <<NoTag, <<"opus">>>>, <<<<"plan">>, <<"opus">>>>}
AmountInputs == {1}
BudgetInputs == {1}
\* The ledger on its own: entries of 2.00 against budgets of 1.00, 4.00, 5.00.
LedgerAmounts == {2}
LedgerBudgets == {1, 4, 5}


VARIABLES
    alive,        \* alive[s]: a SessionManager object exists for store s
    auto_flush,   \* SessionManager.auto_flush
    cached,       \* SessionManager._cached_state (None or a SessionState)
    dirty,        \* SessionManager._dirty
    state_file,   \* contents of state_dir/session.json (None: no file)
    fork_files,   \* contents of forks_dir/*.json, keyed by fork session id
    history,      \* contents of history_dir/*.json, keyed by session id
    heap,         \* the dict objects the cached states refer to
    unused,       \* the ids the id generator has not yielded yet
    mutations,    \* how many more mutations this behaviour may apply
    raised,       \* the exception the last call raised (NoError: it returned)
    profile,      \* QualityGates.profile.gates
    results,      \* QualityGates.results
    proc,         \* what the child process of the last executed gate did
    returned,     \* the GateResult the last run_gate returned
    runs,         \* number of QualityGates calls so far
    executed,     \* the child processes the last call launched, in order
    returned_all, \* the map the last run_all_blocking[_async] returned
    awaiting,     \* run_all_blocking_async is suspended in asyncio.gather
    thread,       \* thread[g]: the executor thread running run_gate(g)
    content,      \* the text given to _extract_phase, as a sequence of tokens
    from_phase,   \* the current / from phase given to the phase functions
    phase_ret,    \* the last call of a phase function and what it returned
    loop_pc,      \* where the generator _run_with_agent_sdk stands
    iteration,    \* its local `iteration`
    current_phase,  \* its local `current_phase`
    max_iterations, \* its argument `max_iterations`
    consumed,     \* messages it has taken from query()
    yielded,      \* the LoopResults it has yielded, in order
    entered,      \* the stores whose `with` block is open
    clock,        \* what datetime.now() gives
    cost_tracking, \* HookManager._cost_tracking
    tool_call,    \* the input_data of the PreToolUse event at hand
    hook_result,  \* the HookResult the last hook handler returned
    active_agents, \* HookManager._active_agents, its values in insertion order
    agent_history, \* HookManager._agent_history
    event          \* the hook event being delivered: its hook and its input_data

vars == <<alive, auto_flush, cached, dirty, state_file, fork_files, history,
          heap, unused, mutations, raised, profile, results, proc, returned, runs,
          executed, returned_all, awaiting, thread, content, from_phase, phase_ret,
          loop_pc, iteration, current_phase, max_iterations, consumed, yielded,
          entered, clock, cost_tracking, tool_call, hook_result, active_agents,
          agent_history, event>>
sessionVars == <<alive, auto_flush, cached, dirty, state_file, fork_files,
                 history, heap, unused, mutations, raised>>
gateVars == <<profile, results, proc, returned, runs, executed, returned_all,
              awaiting, thread>>
phaseVars == <<content, from_phase, phase_ret>>
loopVars == <<loop_pc, iteration, current_phase, max_iterations, consumed, yielded>>
scopeVars == <<entered, clock>>
hookVars == <<cost_tracking, tool_call, hook_result, active_agents, agent_history,
              event>>

\* ---------------------------------------------------------------- helpers
Range(f) == {f[i] : i \in DOMAIN f}
Max2(a, b) == IF a >= b THEN a ELSE b

\* state.gates[name] = result, state.gates.update(other)
DictSet(d, k, v) == [x \in DOMAIN d \cup {k} |-> IF x = k THEN v ELSE d[x]]
DictUpdate(d, other) ==
    [x \in DOMAIN d \cup DOMAIN other |-> IF x \in DOMAIN other THEN other[x] ELSE d[x]]
\* d[k] = d.get(k, 0.0) + v
DictAdd(d, k, v) ==
    [x \in DOMAIN d \cup {k} |->
        IF x = k THEN (IF k \in DOMAIN d THEN d[k] ELSE 0) + v ELSE d[x]]

\* for x in src: if x not in dst: dst.append(x)
RECURSIVE AppendMissing(_, _)
AppendMissing(dst, src) ==
    IF src = <<>> THEN dst
    ELSE AppendMissing(IF Head(src) \in Range(dst) THEN dst ELSE Append(dst, Head(src)),
                       Tail(src))

\* ---------------------------------------------------------------- heap
LiveRefs(c, S) ==
    UNION {{c[s].cost_by_phase, c[s].cost_by_model} : s \in {t \in S : c[t] # None}}
\* Two addresses no state in `c` (restricted to the stores S) refers to.
Fresh(c, S) ==
    LET free == Refs \ LiveRefs(c, S)
    IN CHOOSE rs \in free \X free : rs[1] # rs[2]
\* Cells no cached state refers to are garbage.
Collect(h, c) == [r \in Refs |-> IF r \in LiveRefs(c, Stores) THEN h[r] ELSE EmptyDict]

\* dataclasses.asdict(state): a deep copy, the dictionaries by value.
\* A backup of on_pre_compact holds under "files_changed" the list object
\* state.file_changes itself: OwnList is that reference, ListCopy(items) a list
\* of the backup's own (what json.loads builds).
OwnList == [alias |-> TRUE, items |-> <<>>]
ListCopy(items) == [alias |-> FALSE, items |-> items]
asdict(st, h) ==
    [st EXCEPT !.cost_by_phase = h[st.cost_by_phase],
               !.cost_by_model = h[st.cost_by_model],
               !.backups = [i \in DOMAIN st.backups |->
                    [st.backups[i] EXCEPT !.files_changed =
                        IF @.alias THEN st.file_changes ELSE @.items]]]
\* The Python type each field of SessionState holds.
FieldType ==
    [session_id |-> "str", phase |-> "str", iteration |-> "int",
     parent_session_id |-> "str | None", tasks_completed |-> "int",
     gates |-> "dict", commits |-> "list", file_changes |-> "list",
     cost_usd |-> "float", cost_by_phase |-> "dict", cost_by_model |-> "dict",
     budget_usd |-> "float | None", backups |-> "list", last_updated |-> "str"]
JsonNull == [json |-> "null", v |-> <<>>]
\* Mutant: None is written as the text "None".
JsonOf_NoneAsText(type, v) ==
    IF type \in {"str", "str | None"} THEN [json |-> "string", v |-> v]
    ELSE IF type \in {"int", "float"} THEN [json |-> "number", v |-> v]
    ELSE IF type = "float | None"
         THEN (IF v = NoBudget THEN [json |-> "string", v |-> <<>>]
               ELSE [json |-> "number", v |-> v[1]])
    ELSE IF type = "list" THEN [json |-> "array", v |-> v]
    ELSE [json |-> "object", v |-> v]
\* json.dumps of one value: None -> null, str -> string, int and float ->
\* number, list -> array, dict -> object.
JsonOf(type, v) ==
    IF type = "str" THEN [json |-> "string", v |-> v]
    ELSE IF type \in {"int", "float"} THEN [json |-> "number", v |-> v]
    ELSE IF type = "str | None"
         THEN (IF v = NoId THEN JsonNull ELSE [json |-> "string", v |-> v])
    ELSE IF type = "float | None"
         THEN (IF v = NoBudget THEN JsonNull ELSE [json |-> "number", v |-> v[1]])
    ELSE IF type = "list" THEN [json |-> "array", v |-> v]
    ELSE [json |-> "object", v |-> v]
\* json.loads of one value, as the field of that type holds it.
ValueOf(type, j) ==
    IF type = "str | None" THEN (IF j.json = "null" THEN NoId ELSE j.v)
    ELSE IF type = "float | None" THEN (IF j.json = "null" THEN NoBudget ELSE <<j.v>>)
    ELSE j.v
\* json.dumps(asdict(state)) and json.loads(text)
json_dumps(data) == [f \in DOMAIN data |-> JsonOf(FieldType[f], data[f])]
json_loads(text) == [f \in DOMAIN text |-> ValueOf(FieldType[f], text[f])]
\* What a reader finds in a file that holds json.dumps(asdict(state)).
Stored(st, h) == json_loads(json_dumps(asdict(st, h)))

\* _write_state: state.last_updated = datetime.now().isoformat()
Stamp(st) == IF st = None THEN None ELSE [st EXCEPT !.last_updated = clock]

\* SessionState(**data): new dictionary objects at the addresses rs.
FromData(data, rs) ==
    [data EXCEPT !.cost_by_phase = rs[1], !.cost_by_model = rs[2],
                 !.backups = [i \in DOMAIN data.backups |->
                      [data.backups[i] EXCEPT !.files_changed = ListCopy(@)]]]

\* SessionState(session_id=..., phase="init", iteration=1, ...) in create().
NewState(session_id, rs) ==
    [session_id |-> session_id, phase |-> "init", iteration |-> 1,
     parent_session_id |-> NoId, tasks_completed |-> 0, gates |-> EmptyDict,
     commits |-> <<>>, file_changes |-> <<>>, cost_usd |-> 0,
     cost_by_phase |-> rs[1], cost_by_model |-> rs[2], budget_usd |-> NoBudget,
     backups |-> <<>>, last_updated |-> clock]

\* ---------------------------------------------------------------- load
\* Files that do not hold a session record: text that is not JSON
\* (json.JSONDecodeError), JSON that SessionState(**data) does not accept
\* (TypeError), bytes that are not text in the file system's encoding
\* (read_text() raises UnicodeDecodeError).
BadJson == [corrupt |-> "not JSON"]
BadFields == [corrupt |-> "JSON that is no SessionState"]
BadBytes == [corrupt |-> "not text"]
CorruptRecords == {BadJson, BadFields, BadBytes}
Parses(file) == file # None /\ file \notin CorruptRecords
UnreadableRecord == "UnicodeDecodeError"

\* load(): the cached state if there is one, else the file's record;
\* `except (json.JSONDecodeError, TypeError): return None`.
LoadRaises(s) == cached[s] = None /\ state_file[s] = BadBytes
MustRead(s) == cached[s] = None /\ Parses(state_file[s])
LoadCached(s) ==
    IF MustRead(s)
    THEN [cached EXCEPT ![s] = FromData(state_file[s], Fresh(cached, Stores))]
    ELSE cached
LoadHeap(s) ==
    IF MustRead(s)
    THEN LET rs == Fresh(cached, Stores)
         IN [heap EXCEPT ![rs[1]] = state_file[s].cost_by_phase,
                         ![rs[2]] = state_file[s].cost_by_model]
    ELSE heap

\* ---------------------------------------------------------------- flush
\* flush(): `if self._dirty and self._cached_state is not None`
FlushWrites(isDirty, st) == isDirty /\ st # None
FileAfterFlush(isDirty, st, h, old) ==
    IF FlushWrites(isDirty, st) THEN Stored(Stamp(st), h) ELSE old
\* The cached state after flush(): _write_state stamps the object it writes.
CachedAfterFlush(isDirty, st) == IF FlushWrites(isDirty, st) THEN Stamp(st) ELSE st
\* Mutant: flush writes but leaves the flag set.
DirtyAfterFlush_Kept(isDirty, st) == isDirty
DirtyAfterFlush(isDirty, st) ==
    IF FlushWrites(isDirty, st) THEN FALSE ELSE isDirty

\* Mutant: _mark_dirty flushes whatever auto_flush says.
FileAfterMark_Always(af, st, h, old) == FileAfterFlush(TRUE, st, h, old)
\* _mark_dirty(): self._dirty = True; if self.auto_flush: self.flush()
FileAfterMark(af, st, h, old) ==
    IF af THEN FileAfterFlush(TRUE, st, h, old) ELSE old
DirtyAfterMark(af, st) ==
    IF af THEN DirtyAfterFlush(TRUE, st) ELSE TRUE

NoError == "none"
\* load() raised: the call ends there, nothing has changed.
RaiseOnLoad ==
    /\ raised' = UnreadableRecord
    /\ UNCHANGED <<alive, auto_flush, cached, dirty, state_file, fork_files,
                   history, heap, unused, mutations>>
NoSessionToFork == "No session to fork"
MissingState == "Cannot merge: missing session state"
NotAChild == "Cannot merge: fork is not a child of this session"

\* load() called on its own.
load(s) ==
    /\ alive[s]
    /\ IF LoadRaises(s)
       THEN /\ raised' = UnreadableRecord
            /\ UNCHANGED <<cached, heap>>
       ELSE /\ cached' = LoadCached(s)
            /\ heap' = Collect(LoadHeap(s), cached')
            /\ raised' = NoError
    /\ UNCHANGED <<alive, auto_flush, dirty, state_file, fork_files, history,
                   unused, mutations>>
    /\ UNCHANGED <<gateVars, phaseVars, loopVars, scopeVars, hookVars>>

flush(s) ==
    /\ alive[s]
    /\ state_file' = [state_file EXCEPT
            ![s] = FileAfterFlush(dirty[s], cached[s], heap, state_file[s])]
    /\ dirty' = [dirty EXCEPT ![s] = DirtyAfterFlush(dirty[s], cached[s])]
    /\ cached' = [cached EXCEPT ![s] = CachedAfterFlush(dirty[s], cached[s])]
    /\ raised' = NoError
    /\ UNCHANGED <<alive, auto_flush, fork_files, history, heap, unused, mutations>>
    /\ UNCHANGED <<gateVars, phaseVars, loopVars, scopeVars, hookVars>>

\* ---------------------------------------------------------------- time
\* Time passes.
tick ==
    /\ clock < MaxClock
    /\ clock' = clock + 1
    /\ UNCHANGED entered
    /\ UNCHANGED <<sessionVars, gateVars, phaseVars, loopVars, hookVars>>

\* ---------------------------------------------------------------- with
BlockError == "error raised in the with block"

\* __enter__: returns self.
with_enter(s) ==
    /\ alive[s]
    /\ s \notin entered
    /\ entered' = entered \cup {s}
    /\ raised' = NoError
    /\ UNCHANGED clock
    /\ UNCHANGED <<alive, auto_flush, cached, dirty, state_file, fork_files,
                   history, heap, unused, mutations>>
    /\ UNCHANGED <<gateVars, phaseVars, loopVars, hookVars>>

\* Mutant: the exit flushes only when the block raised nothing.
ExitFlushes_OnReturn(exc) == exc = NoError
\* __exit__(exc_type, exc_val, exc_tb): self.flush(), whatever exc_type is.
ExitFlushes(exc) == TRUE

\* The block is left, by its end (exc = NoError) or by an error raised in it;
\* __exit__ returns None, so the error goes on to the caller.
with_exit(s, exc) ==
    /\ alive[s]
    /\ s \in entered
    /\ entered' = entered \ {s}
    /\ IF ExitFlushes(exc)
       THEN /\ state_file' = [state_file EXCEPT
                    ![s] = FileAfterFlush(dirty[s], cached[s], heap, state_file[s])]
            /\ dirty' = [dirty EXCEPT ![s] = DirtyAfterFlush(dirty[s], cached[s])]
            /\ cached' = [cached EXCEPT ![s] = CachedAfterFlush(dirty[s], cached[s])]
       ELSE UNCHANGED <<state_file, dirty, cached>>
    /\ raised' = exc
    /\ UNCHANGED <<alive, auto_flush, fork_files, history, heap, unused, mutations>>
    /\ UNCHANGED <<gateVars, phaseVars, loopVars, clock, hookVars>>

\* ---------------------------------------------------------------- create
NextId == CHOOSE i \in unused : TRUE
\* create(): session_id is None, so an id is generated (timestamp and uuid4:
\* an id no earlier session has).
Create(s) ==
    /\ alive[s]
    /\ unused # {}
    /\ LET sid == <<"session", NextId>>
           rs == Fresh(cached, Stores \ {s})
           st == NewState(sid, rs)
           h == [heap EXCEPT ![rs[1]] = EmptyDict, ![rs[2]] = EmptyDict]
       IN /\ cached' = [cached EXCEPT ![s] = st]
          /\ heap' = Collect(h, cached')
          /\ state_file' = [state_file EXCEPT ![s] = Stored(st, h)]
    /\ unused' = unused \ {NextId}
    /\ raised' = NoError
    /\ UNCHANGED <<alive, auto_flush, dirty, fork_files, history, mutations>>

create(s) == Create(s) /\ UNCHANGED <<gateVars, phaseVars, loopVars, scopeVars, hookVars>>

\* ---------------------------------------------------------------- mutators
\* The common shape of update_phase, add_commit, ...: state = self.load();
\* if state: <change state in place>; self._mark_dirty()
Mutate(s, changes, st, h) ==
    /\ alive[s]
    /\ IF LoadRaises(s) THEN RaiseOnLoad
       ELSE /\ IF LoadCached(s)[s] # None /\ changes
               THEN /\ mutations > 0
                    /\ mutations' = mutations - 1
                    /\ cached' = [LoadCached(s) EXCEPT
                            ![s] = IF auto_flush[s] THEN Stamp(st) ELSE st]
                    /\ heap' = Collect(h, cached')
                    /\ dirty' = [dirty EXCEPT ![s] = DirtyAfterMark(auto_flush[s], st)]
                    /\ state_file' = [state_file EXCEPT
                            ![s] = FileAfterMark(auto_flush[s], st, h, state_file[s])]
               ELSE /\ cached' = LoadCached(s)
                    /\ heap' = Collect(LoadHeap(s), cached')
                    /\ UNCHANGED <<dirty, state_file, mutations>>
            /\ raised' = NoError
            /\ UNCHANGED <<alive, auto_flush, fork_files, history, unused>>

Mutator(s, changes, st, h) ==
    Mutate(s, changes, st, h) /\ UNCHANGED <<gateVars, phaseVars, loopVars, scopeVars, hookVars>>

Cur(s) == LoadCached(s)[s]

UpdatePhase(s, phase) ==
    Mutate(s, TRUE,
           [Cur(s) EXCEPT !.phase = phase], LoadHeap(s))

update_phase(s, phase) ==
    UpdatePhase(s, phase) /\ UNCHANGED <<gateVars, phaseVars, loopVars, scopeVars, hookVars>>

increment_iteration(s) ==
    Mutator(s, TRUE,
            [Cur(s) EXCEPT !.iteration = @ + 1], LoadHeap(s))

AddCommit(s, commit_hash) ==
    Mutate(s, TRUE,
           [Cur(s) EXCEPT !.commits = Append(@, commit_hash)], LoadHeap(s))

add_commit(s, commit_hash) ==
    AddCommit(s, commit_hash)
    /\ UNCHANGED <<gateVars, phaseVars, loopVars, scopeVars, hookVars>>

\* Mutant: add_file_change records the path whether or not it is there.
AddsFile_Always(file_changes, file_path) == TRUE
\* `file_path not in state.file_changes`
AddsFile(file_changes, file_path) == file_path \notin Range(file_changes)

\* `if state and file_path not in state.file_changes`
AddFileChange(s, file_path) ==
    Mutate(s,
           Cur(s) # None /\ AddsFile(Cur(s).file_changes, file_path),
           [Cur(s) EXCEPT !.file_changes = Append(@, file_path)], LoadHeap(s))

add_file_change(s, file_path) ==
    AddFileChange(s, file_path)
    /\ UNCHANGED <<gateVars, phaseVars, loopVars, scopeVars, hookVars>>

update_gate(s, gate_name, result) ==
    Mutator(s, TRUE,
            [Cur(s) EXCEPT !.gates = DictSet(@, gate_name, result)], LoadHeap(s))

increment_tasks_completed(s) ==
    Mutator(s, TRUE,
            [Cur(s) EXCEPT !.tasks_completed = @ + 1], LoadHeap(s))

\* add_cost(amount_usd, phase, model): `if phase:` and `if model:`.
CostHeap(h, st, amount_usd, phase, model) ==
    LET h1 == IF phase # NoTag
              THEN [h EXCEPT ![st.cost_by_phase] = DictAdd(@, phase[1], amount_usd)]
              ELSE h
    IN IF model # NoTag
       THEN [h1 EXCEPT ![st.cost_by_model] = DictAdd(@, model[1], amount_usd)]
       ELSE h1

add_cost(s, amount_usd, phase, model) ==
    Mutator(s, TRUE,
            [Cur(s) EXCEPT !.cost_usd = @ + amount_usd],
            IF Cur(s) # None
            THEN CostHeap(LoadHeap(s), Cur(s), amount_usd, phase, model)
            ELSE LoadHeap(s))

set_budget(s, budget_usd) ==
    Mutator(s, TRUE,
            [Cur(s) EXCEPT !.budget_usd = <<budget_usd>>], LoadHeap(s))

\* ---------------------------------------------------------------- policy
\* A command is the words it is made of, joined by single blanks. The words
\* of the commands looked at:
CommandWords ==
    {"rm", "-rf", "/", "~", ".", "src", "sudo", "curl", "|", "sh", "npm",
     "install", "-g", "history", "-c", ">", "/dev/sda", ":(){:|:&};:", "ls"}
\* Sets of words by what a regular expression asks of their text.
AnyWord == CommandWords
StartsWithSh == {"sh"}

\* A pattern is a sequence of pieces; a piece is a sequence of sets of words
\* that must stand next to each other (`\s+` between them); between two pieces
\* anything may stand (`.*`).
PieceAt(piece, command, i) ==
    /\ i + Len(piece) - 1 <= Len(command)
    /\ \A k \in 1..Len(piece) : command[i + k - 1] \in piece[k]
RECURSIVE PiecesFrom(_, _, _)
PiecesFrom(pieces, command, from) ==
    IF pieces = <<>> THEN TRUE
    ELSE \E i \in from..Len(command) :
            /\ PieceAt(Head(pieces), command, i)
            /\ PiecesFrom(Tail(pieces), command, i + Len(Head(pieces)))
\* re.search(pattern, command)
re_search(pattern, command) == PiecesFrom(pattern, command, 1)

\* dangerous_patterns, in the order of the list.
dangerous_patterns ==
    << [pattern |-> << <<{"rm"}, {"-rf"}, {"/", "~", "/dev/sda"}>> >>,
        reason |-> "Recursive delete from root or home"],
       [pattern |-> << <<{"rm"}, {"-rf"}, {"*"}>> >>,
        reason |-> "Recursive delete all files"],
       [pattern |-> << <<{"rm"}, {"-rf"}, {"."}>> >>,
        reason |-> "Recursive delete current directory"],
       [pattern |-> << <<{">"}, {"/dev/sda"}>> >>,
        reason |-> "Direct write to disk device"],
       [pattern |-> << <<{"mkfs"}>> >>, reason |-> "Filesystem creation"],
       [pattern |-> << <<{"dd"}, {"if=x"}>>, <<{"of=/dev/sda"}>> >>,
        reason |-> "Direct disk write with dd"],
       [pattern |-> << <<{"chmod"}, {"-R"}, {"777"}, {"/", "/dev/sda"}>> >>,
        reason |-> "Recursive chmod 777 from root"],
       [pattern |-> << <<{"chown"}, {"-R"}>>, <<AnyWord, {"/", "/dev/sda"}>> >>,
        reason |-> "Recursive chown from root"],
       [pattern |-> << <<{":(){:|:&};:"}>> >>, reason |-> "Fork bomb"],
       [pattern |-> << <<{">"}, {"/dev/null"}, {"2>&1"}, {"&"}, {"disown"}>> >>,
        reason |-> "Background process hiding"],
       [pattern |-> << <<{"nc"}, {"-l"}>>, <<{"-e"}, {"/bin/sh"}>> >>,
        reason |-> "Netcat reverse shell"],
       [pattern |-> << <<{"history"}, {"-c"}>> >>, reason |-> "Clear command history"],
       [pattern |-> << <<{"shred"}>>, <<{".bash_history"}>> >>,
        reason |-> "Shred bash history"] >>

\* warning_patterns, in the order of the list. `sudo\s+` asks for a blank
\* after the word, so for a word after it.
warning_patterns ==
    << [pattern |-> << <<{"sudo"}, AnyWord>> >>, reason |-> "Using sudo"],
       [pattern |-> << <<{"curl"}>>, <<{"|"}, StartsWithSh>> >>,
        reason |-> "Piping curl to shell"],
       [pattern |-> << <<{"wget"}>>, <<{"|"}, StartsWithSh>> >>,
        reason |-> "Piping wget to shell"],
       [pattern |-> << <<{"npm"}, {"install"}, {"-g"}>> >>,
        reason |-> "Global npm install"],
       [pattern |-> << <<{"pip"}, {"install"}, {"--user"}>> >>,
        reason |-> "User pip install"] >>

\* HookResult(success=True, decision=..., reason=..., warnings=...): reason is
\* NoReason for None and the parts of the text otherwise.
NoReason == <<>>
HookResult(decision, reason, warnings) ==
    [success |-> TRUE, decision |-> decision, reason |-> reason, warnings |-> warnings,
     context |-> EmptyDict]

\* The patterns of a list that match, in the order of the list.
Matching(patterns, command) ==
    SelectSeq(patterns, LAMBDA entry : re_search(entry.pattern, command))
Reasons(entries) == [i \in DOMAIN entries |-> entries[i].reason]

\* HookManager._validate_bash_command
validate_bash_command(command) ==
    IF Matching(dangerous_patterns, command) # <<>>
    THEN HookResult("block",
                    <<"BLOCKED: ", Matching(dangerous_patterns, command)[1].reason>>, <<>>)
    ELSE HookResult("allow", NoReason, Reasons(Matching(warning_patterns, command)))

\* A file path: how it starts ("" with its first segment, "sep" with a
\* separator, "C:" with a drive and a separator), the separator it is written
\* with ("/" or a backslash), its segments.
PathNames ==
    {"etc", "Windows", "proj", ".ssh", ".git", "HEAD", ".env", ".ENV",
     ".env.production", "id_rsa", "server.pem", "main.py"}
\* re.IGNORECASE: the text in lower case.
Lower(name) ==
    CASE name = "Windows" -> "windows" [] name = "HEAD" -> "head"
      [] name = ".ENV" -> ".env" [] OTHER -> name

\* file_path.replace("\\", "/")
Normalize(file_path) == [file_path EXCEPT !.sep = "/"]

\* The segment at i stands at the start of the text or right after a "/":
\* `(^|/)`.
AfterStartOrSlash(path, i) ==
    \/ i = 1 /\ path.root = ""
    \/ path.sep = "/" /\ (i > 1 \/ path.root # "")
\* The segment at i is followed by a "/".
BeforeSlash(path, i) == path.sep = "/" /\ i < Len(path.segs)

\* protected_patterns: re.search(pattern, normalized, re.IGNORECASE) for one
\* of them.
MatchesProtected(path) ==
    LET n == Len(path.segs)
        seg(i) == Lower(path.segs[i])
    IN n > 0 /\
       \/ path.root = "sep" /\ path.sep = "/" /\ n >= 2
             /\ seg(1) \in {"etc", "usr", "bin", "sbin"}
       \/ path.root = "C:" /\ path.sep = "/"
             /\ \/ n >= 2 /\ seg(1) = "windows"
                \/ seg(1) = "program files"
       \/ \E i \in 1..n : /\ seg(i) \in {".ssh", ".gnupg"}
                           /\ AfterStartOrSlash(path, i) /\ BeforeSlash(path, i)
       \/ \E i \in 1..n : /\ seg(i) = ".aws" /\ AfterStartOrSlash(path, i)
                           /\ BeforeSlash(path, i)
                           /\ i + 1 = n /\ seg(n) = "credentials"
       \/ seg(n) = ".env.production" /\ AfterStartOrSlash(path, n)
       \/ \E i \in 1..n : /\ seg(i) = ".git" /\ AfterStartOrSlash(path, i)
                           /\ BeforeSlash(path, i)
                           /\ \/ seg(i + 1) \in {"objects", "refs"}
                                  /\ BeforeSlash(path, i + 1)
                              \/ i + 1 = n /\ seg(n) = "head"

\* sensitive_patterns: re.search(pattern, file_path, re.IGNORECASE) for one
\* of them.
MatchesSensitive(path) ==
    LET n == Len(path.segs)
        seg(i) == Lower(path.segs[i])
    IN n > 0 /\
       \/ seg(n) \in {".env", ".env.local"} /\ AfterStartOrSlash(path, n)
       \/ \E i \in 1..n : seg(i) \in {"secrets.yaml", "credentials.json",
                                        "password", "api_key", "id_rsa", "id_ed25519"}
       \/ seg(n) \in {"server.pem", "server.key"}

\* HookManager._validate_file_operation
validate_file_operation(file_path) ==
    IF MatchesProtected(Normalize(file_path))
    THEN HookResult("block",
                    <<"BLOCKED: Cannot modify protected path: ", file_path>>, <<>>)
    ELSE IF MatchesSensitive(file_path)
    THEN HookResult("allow", NoReason, <<"Modifying sensitive file">>)
    ELSE HookResult("allow", NoReason, <<>>)

\* No PreToolUse event is at hand; no result has been returned for it.
EmptyPath == [root |-> "", sep |-> "/", segs |-> <<>>]
NoEvent == [hook |-> "", input_data |-> EmptyDict]
NoToolCall == [tool_name |-> "", command |-> <<>>, file_path |-> EmptyPath]
NoHookResult ==
    [success |-> FALSE, decision |-> "", reason |-> NoReason, warnings |-> <<>>,
     context |-> EmptyDict]

\* HookManager.on_pre_tool_use(input_data, ...)
PreToolUse(input_data) ==
    IF input_data.tool_name = "Bash"
    THEN validate_bash_command(input_data.command)
    ELSE IF input_data.tool_name \in {"Write", "Edit"}
    THEN validate_file_operation(input_data.file_path)
    ELSE HookResult("allow", NoReason, <<>>)

on_pre_tool_use(input_data) ==
    /\ tool_call' = input_data
    /\ hook_result' = PreToolUse(input_data)
    /\ UNCHANGED <<cost_tracking, active_agents, agent_history, event>>
    /\ UNCHANGED <<sessionVars, gateVars, phaseVars, loopVars, scopeVars>>

\* The PreToolUse events looked at: a Bash command of up to MaxWords words, a
\* Write or Edit of a path of up to MaxSegments segments (none: the key is
\* missing and the default "" is taken), a tool that is not validated.
Commands(words) == UNION {[1..n -> CommandWords] : n \in 0..words}
Paths(segments) ==
    {EmptyPath} \cup
    {[root |-> r, sep |-> sp, segs |-> sg] :
        r \in {"", "sep", "C:"}, sp \in {"/", "\\"},
        sg \in UNION {[1..n -> PathNames] : n \in 1..segments}}
BashInputs(words) ==
    {[tool_name |-> "Bash", command |-> c, file_path |-> EmptyPath] :
        c \in Commands(words)}
FileInputsOf(segments) ==
    {[tool_name |-> tn, command |-> <<>>, file_path |-> f] :
        tn \in {"Write", "Edit"}, f \in Paths(segments)}
OtherToolInput == [tool_name |-> "Read", command |-> <<>>, file_path |-> EmptyPath]
\* Three of them, for the events that reach a session in its course.
PreToolSamples ==
    {[tool_name |-> "Bash", command |-> <<"rm", "-rf", "/">>, file_path |-> EmptyPath],
     [tool_name |-> "Write", command |-> <<>>,
      file_path |-> [root |-> "", sep |-> "/", segs |-> <<".env">>]],
     [tool_name |-> "Read", command |-> <<>>, file_path |-> EmptyPath]}

\* ---------------------------------------------------------------- budget
\* Mutant: the remaining budget is the plain difference.
Max0_Unclamped(x) == x
\* max(0.0, x)
Max0(x) == IF x > 0 THEN x ELSE 0

\* SessionManager.is_over_budget() on store s; state = self.load().
is_over_budget(s) ==
    IF Cur(s) = None \/ Cur(s).budget_usd = NoBudget THEN FALSE
    ELSE Cur(s).cost_usd > Cur(s).budget_usd[1]

\* SessionManager.get_budget_remaining() on store s: an optional amount,
\* <<x>> for x and NoBudget for None.
get_budget_remaining(s) ==
    IF Cur(s) = None \/ Cur(s).budget_usd = NoBudget THEN NoBudget
    ELSE <<Max0(Cur(s).budget_usd[1] - Cur(s).cost_usd)>>

\* CostTracking(): the defaults of the dataclass.
NewCostTracking ==
    [total_usd |-> 0, by_phase |-> EmptyDict, by_model |-> EmptyDict,
     budget_usd |-> NoBudget]

\* CostTracking.over_budget
over_budget(ct) ==
    IF ct.budget_usd = NoBudget THEN FALSE ELSE ct.total_usd > ct.budget_usd[1]

\* CostTracking.budget_remaining: an optional amount.
budget_remaining(ct) ==
    IF ct.budget_usd = NoBudget THEN NoBudget
    ELSE <<Max0(ct.budget_usd[1] - ct.total_usd)>>

\* HookManager.add_cost(amount_usd, phase, model)
HookManager_add_cost(amount_usd, phase, model) ==
    /\ mutations > 0
    /\ mutations' = mutations - 1
    /\ cost_tracking' =
          [cost_tracking EXCEPT
             !.total_usd = @ + amount_usd,
             !.by_phase = IF phase # NoTag THEN DictAdd(@, phase[1], amount_usd) ELSE @,
             !.by_model = IF model # NoTag THEN DictAdd(@, model[1], amount_usd) ELSE @]
    /\ UNCHANGED <<tool_call, hook_result, active_agents, agent_history, event>>
    /\ UNCHANGED <<alive, auto_flush, cached, dirty, state_file, fork_files,
                   history, heap, unused, raised>>
    /\ UNCHANGED <<gateVars, phaseVars, loopVars, scopeVars>>

\* HookManager.set_budget(budget_usd)
HookManager_set_budget(budget_usd) ==
    /\ mutations > 0
    /\ mutations' = mutations - 1
    /\ cost_tracking' = [cost_tracking EXCEPT !.budget_usd = <<budget_usd>>]
    /\ UNCHANGED <<tool_call, hook_result, active_agents, agent_history, event>>
    /\ UNCHANGED <<alive, auto_flush, cached, dirty, state_file, fork_files,
                   history, heap, unused, raised>>
    /\ UNCHANGED <<gateVars, phaseVars, loopVars, scopeVars>>

\* ---------------------------------------------------------------- hooks
\* PostToolUse events: a Write or Edit with or without a file_path, a Bash
\* `git commit` whose result shows a hash, a tool that is not tracked.
PostToolInputs ==
    {[tool_name |-> tn, file_path |-> f, commit |-> ""] :
        tn \in {"Write", "Edit"}, f \in FileInputs \cup {""}}
    \cup {[tool_name |-> "Bash", file_path |-> "", commit |-> c] : c \in CommitInputs}
    \cup {[tool_name |-> "Read", file_path |-> "a.py", commit |-> ""]}
\* The Write events among them that carry a path.
WriteInputs == {i \in PostToolInputs : i.tool_name = "Write" /\ i.file_path # ""}
\* One event of each kind: a Write with a path, a Write without, a commit, a
\* tool that is not tracked.
PostToolSamples ==
    {i \in PostToolInputs :
        /\ i.file_path \in {"a.py", ""}
        /\ i.tool_name # "Edit"
        /\ i.commit \in {"", "c1"}}

\* dict.get(key, default)
Get(d, key, default) == IF key \in DOMAIN d THEN d[key] ELSE default

\* HookResult(success=True, context=..., warnings=...): the decision is the
\* default of the dataclass, ALLOW.
Allowed(context, warnings) ==
    [HookResult("allow", NoReason, warnings) EXCEPT !.context = context]

\* A handler returns result; the tables of the hook manager stay as they are.
Return(result) ==
    /\ hook_result' = result
    /\ UNCHANGED <<cost_tracking, tool_call, active_agents, agent_history, event>>
    /\ UNCHANGED <<gateVars, phaseVars, loopVars, scopeVars>>
\* The same for a handler that calls load() on store s first: when load()
\* raises, the handler raises and returns nothing.
Returns(s, result) == Return(IF LoadRaises(s) THEN hook_result ELSE result)

\* ext_lint_map of on_post_tool_use, and the extension
\* file_path.rsplit(".", 1)[-1] of the paths looked at.
ext_lint_map ==
    [ext \in {"py", "ts", "tsx", "js", "go"} |->
        IF ext = "py" THEN "ruff check"
        ELSE IF ext = "go" THEN "golangci-lint run" ELSE "eslint"]
Ext(file_path) == IF file_path \in {"a.py", "b.py"} THEN "py" ELSE ""
Suggestions(file_path) ==
    IF Ext(file_path) \in DOMAIN ext_lint_map
    THEN << <<"Consider running: ", ext_lint_map[Ext(file_path)]>> >>
    ELSE <<>>

\* HookManager.on_post_tool_use on the manager's store s.
on_post_tool_use(s, input_data) ==
    IF input_data.tool_name \in {"Write", "Edit"} /\ input_data.file_path # ""
    THEN /\ AddFileChange(s, input_data.file_path)
         /\ Returns(s, Allowed(EmptyDict, Suggestions(input_data.file_path)))
    ELSE IF input_data.tool_name = "Bash" /\ input_data.commit # ""
    THEN AddCommit(s, input_data.commit) /\ Returns(s, Allowed(EmptyDict, <<>>))
    ELSE /\ alive[s]
         /\ UNCHANGED sessionVars
         /\ Return(Allowed(EmptyDict, <<>>))

\* f"session-{int(datetime.now().timestamp())}"
TimestampIds == <<"at-0", "at-1", "at-2", "at-3", "at-4", "at-5">>
StartedId == <<"session", TimestampIds[clock + 1]>>

\* HookManager.on_session_start: state = load(); a SessionState with the
\* defaults of the dataclass when there is none; state.name = ...; save(state).
\* The name is not among the fields kept here.
StartResult(input_data) ==
    Allowed([session_id |-> StartedId,
             profile |-> Get(input_data, "profile", "auto-detect"),
             git_branch |-> Get(input_data, "git_branch", "unknown")], <<>>)
on_session_start(s, input_data) ==
    IF LoadRaises(s) \/ Cur(s) # None
    THEN Mutate(s, TRUE, Cur(s), LoadHeap(s)) /\ Returns(s, StartResult(input_data))
    ELSE /\ alive[s]
         /\ mutations > 0
         /\ mutations' = mutations - 1
         /\ LET rs == Fresh(cached, Stores \ {s})
                st == NewState(StartedId, rs)
                h == [heap EXCEPT ![rs[1]] = EmptyDict, ![rs[2]] = EmptyDict]
            IN /\ cached' = [cached EXCEPT
                        ![s] = IF auto_flush[s] THEN Stamp(st) ELSE st]
               /\ heap' = Collect(h, cached')
               /\ dirty' = [dirty EXCEPT ![s] = DirtyAfterMark(auto_flush[s], st)]
               /\ state_file' = [state_file EXCEPT
                        ![s] = FileAfterMark(auto_flush[s], st, h, state_file[s])]
         /\ raised' = NoError
         /\ UNCHANGED <<alive, auto_flush, fork_files, history, unused>>
         /\ Return(StartResult(input_data))

\* Mutant: SessionEnd leaves the phase a word no phase list has.
EndPhase_Closed == "closed"
\* HookManager.on_session_end: state.phase = "archived"
EndPhase == "archived"
\* HookManager.on_stop: state.phase = "complete"
StopPhase == "complete"

\* HookManager.on_session_end: if state: state.phase = "archived"; save(state)
\* Its result carries archive_data (the duration, a clock difference, left
\* out) when there is a state and no context when there is none.
on_session_end(s) ==
    /\ Mutate(s, TRUE, [Cur(s) EXCEPT !.phase = EndPhase], LoadHeap(s))
    /\ Returns(s, IF Cur(s) = None THEN Allowed(EmptyDict, <<>>)
                  ELSE Allowed([session_id |-> Cur(s).session_id,
                                files_changed |-> Len(Cur(s).file_changes),
                                commits |-> Len(Cur(s).commits),
                                tasks_completed |-> Cur(s).tasks_completed,
                                cost |-> cost_tracking.total_usd], <<>>))

\* HookManager.on_stop: if state: state.phase = "complete"; save(state)
\* Its result carries the verification summary and, for file changes without
\* a commit, a recommendation.
on_stop(s) ==
    /\ Mutate(s, TRUE, [Cur(s) EXCEPT !.phase = StopPhase], LoadHeap(s))
    /\ Returns(s, IF Cur(s) = None THEN Allowed(EmptyDict, <<>>)
                  ELSE Allowed([files_modified |-> Len(Cur(s).file_changes),
                                commits |-> Len(Cur(s).commits),
                                tasks_completed |-> Cur(s).tasks_completed,
                                cost_usd |-> cost_tracking.total_usd],
                               IF Cur(s).file_changes # <<>> /\ Cur(s).commits = <<>>
                               THEN << <<"Consider committing changes">> >>
                               ELSE <<>>))

\* seq[-n:]
LastN(seq, n) == SubSeq(seq, Max2(1, Len(seq) - n + 1), Len(seq))
\* `(state.backups or [])[-9:]`: how many backups are kept before the append.
KeptBackups == 9
\* The backup dict of on_pre_compact: "files_changed" is state.file_changes,
\* the list object, and "active_agents" the ids of the running agents.
Backup(state) ==
    [timestamp |-> clock, session_id |-> state.session_id, phase |-> state.phase,
     iteration |-> state.iteration, files_changed |-> OwnList,
     active_agents |-> [i \in DOMAIN active_agents |-> active_agents[i].id],
     cost |-> cost_tracking.total_usd]
\* Mutant: the backup is appended to the whole list.
WithBackup_Unbounded(backups, backup) == Append(backups, backup)
\* state.backups = (state.backups or [])[-9:]; state.backups.append(backup)
WithBackup(backups, backup) == Append(LastN(backups, KeptBackups), backup)

\* HookManager.on_pre_compact: if state: a backup is appended to
\* state.backups; save(state).
on_pre_compact(s) ==
    /\ Mutate(s, TRUE,
              [Cur(s) EXCEPT !.backups = WithBackup(@, Backup(Cur(s)))], LoadHeap(s))
    /\ Returns(s, IF Cur(s) = None THEN Allowed(EmptyDict, <<>>)
                  ELSE Allowed([backup_created |-> TRUE], <<>>))

\* f"agent-{int(datetime.now().timestamp())}"
AgentTimestampIds ==
    <<"agent-0", "agent-1", "agent-2", "agent-3", "agent-4", "agent-5">>
DefaultAgentId == AgentTimestampIds[clock + 1]
\* SubagentInfo(id=..., type=..., ...): start_time is now, end_time None,
\* status "running", result_summary "" (a text is kept as its length).
SubagentInfo(input_data) ==
    [id |-> Get(input_data, "agent_id", DefaultAgentId),
     type |-> Get(input_data, "subagent_type", "general-purpose"),
     description |-> Get(input_data, "description", ""),
     model |-> Get(input_data, "model", "sonnet"),
     run_in_background |-> Get(input_data, "run_in_background", FALSE),
     start_time |-> clock, end_time |-> <<>>, status |-> "running",
     result_summary |-> 0]

\* The running agents are a dict, kept as the sequence of its values in
\* insertion order.
AgentAt(agents, agent_id) == {i \in DOMAIN agents : agents[i].id = agent_id}
\* self._active_agents[agent_id] = agent_info: a new key goes last, a key that
\* is there keeps its place.
PutAgent(agents, info) ==
    IF AgentAt(agents, info.id) = {} THEN Append(agents, info)
    ELSE [i \in DOMAIN agents |-> IF agents[i].id = info.id THEN info ELSE agents[i]]
\* self._active_agents.pop(agent_id, None): the dict without that key.
PopAgent(agents, agent_id) == SelectSeq(agents, LAMBDA a : a.id # agent_id)

\* HookManager.on_subagent_start
on_subagent_start(input_data) ==
    /\ mutations > 0
    /\ mutations' = mutations - 1
    /\ active_agents' = PutAgent(active_agents, SubagentInfo(input_data))
    /\ hook_result' =
          Allowed([agent_id |-> SubagentInfo(input_data).id,
                   agent_type |-> SubagentInfo(input_data).type,
                   active_count |-> Len(active_agents')], <<>>)
    /\ UNCHANGED <<cost_tracking, tool_call, agent_history, event>>
    /\ UNCHANGED <<alive, auto_flush, cached, dirty, state_file, fork_files,
                   history, heap, unused, raised>>
    /\ UNCHANGED <<gateVars, phaseVars, loopVars, scopeVars>>

\* `result_summary[:500]` and `self._agent_history[-50:]`
SummaryLimit == 500
AgentHistoryLimit == 50
Min2(a, b) == IF a <= b THEN a ELSE b
\* Mutant: the history is never cut.
WithStopped_Unbounded(agents, info) == Append(agents, info)
\* self._agent_history.append(agent_info); if len(...) > 50: keep [-50:]
WithStopped(agents, info) ==
    IF Len(Append(agents, info)) > AgentHistoryLimit
    THEN LastN(Append(agents, info), AgentHistoryLimit)
    ELSE Append(agents, info)

\* HookManager.on_subagent_stop: the agent popped from the running table, if
\* it is there, goes to the history with its end time, status and summary.
on_subagent_stop(input_data) ==
    LET agent_id == Get(input_data, "agent_id", "")
        success == Get(input_data, "success", TRUE)
        result_summary == Get(input_data, "result_summary", 0)
        found == AgentAt(active_agents, agent_id)
    IN /\ active_agents' = PopAgent(active_agents, agent_id)
       /\ IF found # {}
          THEN LET agent_info ==
                     [active_agents[CHOOSE i \in found : TRUE] EXCEPT
                         !.end_time = <<clock>>,
                         !.status = IF success THEN "completed" ELSE "failed",
                         !.result_summary = Min2(result_summary, SummaryLimit)]
               IN /\ mutations > 0
                  /\ mutations' = mutations - 1
                  /\ agent_history' = WithStopped(agent_history, agent_info)
                  /\ hook_result' =
                        Allowed([agent_id |-> agent_id, type |-> agent_info.type,
                                 success |-> success,
                                 remaining_agents |-> Len(active_agents')], <<>>)
          ELSE /\ hook_result' = Allowed(EmptyDict, <<>>)
               /\ UNCHANGED <<agent_history, mutations>>
       /\ UNCHANGED <<cost_tracking, tool_call, event>>
       /\ UNCHANGED <<alive, auto_flush, cached, dirty, state_file, fork_files,
                      history, heap, unused, raised>>
       /\ UNCHANGED <<gateVars, phaseVars, loopVars, scopeVars>>

\* The input_data dict of a tool event as the runtime hands it over, any key
\* missing, and what on_pre_tool_use and on_post_tool_use read from it with
\* input_data.get("tool_name", ""), input_data.get("tool_input", {}) and
\* tool_input.get(...).
PreToolArgs_Sniffed(input_data) ==
    LET tool_input == Get(input_data, "tool_input", EmptyDict)
    IN [tool_name |-> Get(input_data, "tool_name", "Bash"),
        command |-> Get(tool_input, "command", <<>>),
        file_path |-> Get(tool_input, "file_path", EmptyPath)]
PreToolArgs(input_data) ==
    LET tool_input == Get(input_data, "tool_input", EmptyDict)
    IN [tool_name |-> Get(input_data, "tool_name", ""),
        command |-> Get(tool_input, "command", <<>>),
        file_path |-> Get(tool_input, "file_path", EmptyPath)]
\* `"git commit" in command`, the command as its words.
IsGitCommit(command) ==
    \E i \in 1..(Len(command) - 1) : command[i] = "git" /\ command[i + 1] = "commit"
\* re.search(r"\b([0-9a-f]{7,40})\b", text): the first hash among the words
\* of the text, "" when there is none.
HashIn(text) ==
    LET hashes == SelectSeq(text, LAMBDA w : w \in CommitInputs)
    IN IF hashes = <<>> THEN "" ELSE hashes[1]
PostToolArgs(input_data) ==
    LET tool_input == Get(input_data, "tool_input", EmptyDict)
    IN [tool_name |-> Get(input_data, "tool_name", ""),
        file_path |-> Get(tool_input, "file_path", ""),
        commit |-> IF IsGitCommit(Get(tool_input, "command", <<>>))
                   THEN HashIn(Get(input_data, "result", <<>>)) ELSE ""]

\* HookManager.track_file_changes
track_file_changes(s, input_data) ==
    LET file_path == Get(Get(input_data, "tool_input", EmptyDict), "file_path", "")
    IN IF /\ Get(input_data, "hook_event_name", "") = "PostToolUse"
          /\ Get(input_data, "tool_name", "") \in {"Write", "Edit"}
          /\ file_path # ""
       THEN AddFileChange(s, file_path) /\ Returns(s, Allowed(EmptyDict, <<>>))
       ELSE /\ alive[s]
            /\ UNCHANGED sessionVars
            /\ Return(Allowed(EmptyDict, <<>>))

\* HookManager.track_commands: the result must hold the word commit as well.
track_commands(s, input_data) ==
    LET command == Get(Get(input_data, "tool_input", EmptyDict), "command", <<>>)
        result == Get(input_data, "result", <<>>)
    IN IF /\ Get(input_data, "hook_event_name", "") = "PostToolUse"
          /\ Get(input_data, "tool_name", "") = "Bash"
          /\ IsGitCommit(command)
          /\ "commit" \in Range(result) /\ HashIn(result) # ""
       THEN AddCommit(s, HashIn(result)) /\ Returns(s, Allowed(EmptyDict, <<>>))
       ELSE /\ alive[s]
            /\ UNCHANGED sessionVars
            /\ Return(Allowed(EmptyDict, <<>>))

\* class Phase(str, Enum)
PhaseEnum == {"init", "understand", "plan", "execute", "verify", "commit", "evaluate"}
\* HookManager.update_phase(phase: Phase, ...)
HookManager_update_phase(s, phase) == update_phase(s, phase)

\* ---------------------------------------------------------------- fork
FreeStores == {k \in Stores : ~alive[k]}

\* Mutant: fork() hands the parent's dictionaries to the fork instead of copies.
ForkState_Shared(state, fork_session_id, rs) ==
    [state EXCEPT !.session_id = fork_session_id,
                  !.parent_session_id = state.session_id,
                  !.last_updated = clock]
\* Mutant: fork() starts the fork at iteration 1 instead of the parent's.
ForkState_Restarted(state, fork_session_id, rs) ==
    [state EXCEPT !.session_id = fork_session_id,
                  !.parent_session_id = state.session_id,
                  !.iteration = 1,
                  !.cost_by_phase = rs[1], !.cost_by_model = rs[2],
                  !.last_updated = clock]
\* SessionState(session_id=fork_session_id, ..., parent_session_id=state.session_id,
\* gates=dict(state.gates), commits=list(state.commits), ...): copies at rs.
ForkState(state, fork_session_id, rs) ==
    [session_id |-> fork_session_id, phase |-> state.phase,
     iteration |-> state.iteration, parent_session_id |-> state.session_id,
     tasks_completed |-> state.tasks_completed, gates |-> state.gates,
     commits |-> state.commits, file_changes |-> state.file_changes,
     cost_usd |-> state.cost_usd, cost_by_phase |-> rs[1],
     cost_by_model |-> rs[2], budget_usd |-> state.budget_usd,
     backups |-> <<>>, last_updated |-> clock]

\* fork(): raises ValueError("No session to fork") when load() gives None.
fork(s) ==
    /\ alive[s]
    /\ IF LoadRaises(s)
       THEN /\ raised' = UnreadableRecord
            /\ UNCHANGED <<alive, auto_flush, cached, dirty, state_file, fork_files,
                           heap, unused>>
       ELSE IF Cur(s) = None
       THEN /\ raised' = NoSessionToFork
            /\ UNCHANGED <<alive, auto_flush, cached, dirty, state_file, fork_files,
                           heap, unused>>
       ELSE /\ FreeStores # {}
            /\ unused # {}
            /\ LET k == CHOOSE x \in FreeStores : TRUE
                   fid == <<"fork", NextId>>
                   c1 == LoadCached(s)
                   rs == Fresh(c1, Stores)
                   fork_state == ForkState(c1[s], fid, rs)
                   h == [LoadHeap(s) EXCEPT
                            ![rs[1]] = LoadHeap(s)[c1[s].cost_by_phase],
                            ![rs[2]] = LoadHeap(s)[c1[s].cost_by_model]]
               IN /\ cached' = [c1 EXCEPT ![k] = fork_state]
                  /\ heap' = Collect(h, cached')
                  /\ fork_files' = [fork_files EXCEPT
                        ![s] = DictSet(@, fid, Stored(fork_state, h))]
                  /\ state_file' = [state_file EXCEPT ![k] = Stored(fork_state, h)]
                  /\ alive' = [alive EXCEPT ![k] = TRUE]
                  /\ auto_flush' = [auto_flush EXCEPT ![k] = auto_flush[s]]
                  /\ dirty' = [dirty EXCEPT ![k] = FALSE]
                  /\ unused' = unused \ {NextId}
                  /\ raised' = NoError
    /\ UNCHANGED <<history, mutations>>
    /\ UNCHANGED <<gateVars, phaseVars, loopVars, scopeVars, hookVars>>

\* ---------------------------------------------------------------- merge_fork
\* Mutants: merge_fork takes the fork's value where the code combines the two.
MergeIteration_Fork(own_iteration, fork_iteration) == fork_iteration
MergeFileChanges_Replace(file_changes, fork_file_changes) == fork_file_changes
MergeGates_Replace(gates, fork_gates) == fork_gates
MergePhase(phase, fork_phase) == fork_phase
MergeIteration(own_iteration, fork_iteration) == Max2(own_iteration, fork_iteration)
MergeFileChanges(file_changes, fork_file_changes) ==
    AppendMissing(file_changes, fork_file_changes)
\* Mutant: the fork's commits are appended without the membership test.
MergeCommits_Extend(commits, fork_commits) == commits \o fork_commits
MergeCommits(commits, fork_commits) == AppendMissing(commits, fork_commits)
MergeGates(gates, fork_gates) == DictUpdate(gates, fork_gates)
\* state.cost_by_phase = fork_state.cost_by_phase: the fork's object itself.
MergeCostRef(ref, fork_ref) == fork_ref

MergeState(state, fork_state) ==
    [state EXCEPT
        !.phase = MergePhase(state.phase, fork_state.phase),
        !.iteration = MergeIteration(state.iteration, fork_state.iteration),
        !.tasks_completed = fork_state.tasks_completed,
        !.file_changes = MergeFileChanges(state.file_changes, fork_state.file_changes),
        !.commits = MergeCommits(state.commits, fork_state.commits),
        !.gates = MergeGates(state.gates, fork_state.gates),
        !.cost_usd = fork_state.cost_usd,
        !.cost_by_phase = MergeCostRef(state.cost_by_phase, fork_state.cost_by_phase),
        !.cost_by_model = MergeCostRef(state.cost_by_model, fork_state.cost_by_model)]

\* `if not state or not fork_state` and
\* `if fork_state.parent_session_id != state.session_id`: both raise ValueError.
\* Mutant: merge_fork without the parent_session_id check.
MergeError_Unchecked(state, fork_state) ==
    IF state = None \/ fork_state = None THEN MissingState ELSE NoError
MergeError(state, fork_state) ==
    IF state = None \/ fork_state = None THEN MissingState
    ELSE IF fork_state.parent_session_id # state.session_id THEN NotAChild
    ELSE NoError
MergeRaises(state, fork_state) == MergeError(state, fork_state) # NoError

\* merge_fork(fork_manager): self is s, fork_manager is f.  Both load() calls
\* come first and may fill the two caches from the files.
merge_fork(s, f) ==
    /\ alive[s] /\ alive[f]
    /\ LET c1 == LoadCached(s)
           h1 == LoadHeap(s)
           mustReadF == c1[f] = None /\ Parses(state_file[f])
           rs == Fresh(c1, Stores)
           c2 == IF mustReadF
                 THEN [c1 EXCEPT ![f] = FromData(state_file[f], rs)]
                 ELSE c1
           h2 == IF mustReadF
                 THEN [h1 EXCEPT ![rs[1]] = state_file[f].cost_by_phase,
                                 ![rs[2]] = state_file[f].cost_by_model]
                 ELSE h1
       IN IF LoadRaises(s)
          THEN /\ raised' = UnreadableRecord
               /\ UNCHANGED <<cached, heap, dirty, state_file>>
          ELSE IF c1[f] = None /\ state_file[f] = BadBytes
          THEN /\ cached' = c1
               /\ heap' = Collect(h1, cached')
               /\ raised' = UnreadableRecord
               /\ UNCHANGED <<dirty, state_file>>
          ELSE IF MergeRaises(c2[s], c2[f])
          THEN /\ cached' = c2
               /\ heap' = Collect(h2, cached')
               /\ raised' = MergeError(c2[s], c2[f])
               /\ UNCHANGED <<dirty, state_file>>
          ELSE LET st == MergeState(c2[s], c2[f])
               IN /\ cached' = [c2 EXCEPT
                        ![s] = IF auto_flush[s] THEN Stamp(st) ELSE st]
                  /\ heap' = Collect(h2, cached')
                  /\ dirty' = [dirty EXCEPT ![s] = DirtyAfterMark(auto_flush[s], st)]
                  /\ state_file' = [state_file EXCEPT
                        ![s] = FileAfterMark(auto_flush[s], st, h2, state_file[s])]
                  /\ raised' = NoError
    /\ UNCHANGED <<alive, auto_flush, fork_files, history, unused, mutations>>
    /\ UNCHANGED <<gateVars, phaseVars, loopVars, scopeVars, hookVars>>

\* ---------------------------------------------------------------- clear
\* Mutant: clear archives the record as it was before the flush.
Archived_BeforeFlush(flushed, old) == old
\* archive_file.write_text(self.state_file.read_text()), after self.flush()
Archived(flushed, old) == flushed

\* clear(): flush; archive the file under the session's id; unlink; drop the cache.
clear(s) ==
    /\ alive[s]
    /\ IF LoadRaises(s) THEN RaiseOnLoad
       ELSE /\ LET file == FileAfterFlush(dirty[s], cached[s], heap, state_file[s])
                   \* state = self.load(), after the flush: `if state:` archive
                   sid == IF cached[s] # None THEN cached[s].session_id
                          ELSE file.session_id
               IN /\ history' = [history EXCEPT
                        ![s] = IF Parses(file)
                               THEN DictSet(@, sid, Archived(file, state_file[s]))
                               ELSE @]
                  /\ state_file' = [state_file EXCEPT ![s] = None]
            /\ cached' = [cached EXCEPT ![s] = None]
            /\ heap' = Collect(heap, cached')
            /\ dirty' = [dirty EXCEPT ![s] = FALSE]
            /\ raised' = NoError
            /\ UNCHANGED <<alive, auto_flush, fork_files, unused, mutations>>
    /\ UNCHANGED <<gateVars, phaseVars, loopVars, scopeVars, hookVars>>

\* ---------------------------------------------------------------- resume
\* A new process: SessionManager(state_dir) over the root directory, with an
\* empty cache and a clear dirty flag.  The managers fork() returned are
\* objects of the old process and are gone; their directories stay on disk
\* but no manager is opened on them again.
restart ==
    /\ cached[Root] # None \/ \E s \in Stores \ {Root} : alive[s]
    /\ alive' = [s \in Stores |-> s = Root]
    /\ cached' = [s \in Stores |-> None]
    /\ dirty' = [s \in Stores |-> FALSE]
    /\ heap' = Collect(heap, cached')
    /\ state_file' = [s \in Stores |-> IF s = Root THEN state_file[s] ELSE None]
    /\ fork_files' = [s \in Stores |-> IF s = Root THEN fork_files[s] ELSE EmptyDict]
    /\ history' = [s \in Stores |-> IF s = Root THEN history[s] ELSE EmptyDict]
    /\ raised' = NoError
    /\ UNCHANGED <<auto_flush, unused, mutations>>
    /\ UNCHANGED <<gateVars, phaseVars, loopVars, scopeVars, hookVars>>

\* ---------------------------------------------------------------- gates
\* Profile.gates: gate name -> GateConfig(command, blocking, timeout).
PythonProfile ==
    [g \in {"lint", "test", "type"} |->
        [command |-> IF g = "lint" THEN "ruff check ."
                     ELSE IF g = "test" THEN "pytest" ELSE "pyright",
         blocking |-> g # "type",
         timeout |-> IF g = "lint" THEN 60 ELSE IF g = "test" THEN 300 ELSE 120]]
ProfileInputs == {PythonProfile, EmptyDict}
GateNames == {"lint", "test", "type"}

\* What the child process of subprocess.run did: it exited, it ran past the
\* timeout (TimeoutExpired), or it could not be launched (another exception).
ProcOutcomes ==
    [kind : {"exit"}, returncode : {0, 1},
     stdout : {"", "file.py:1: I001 unsorted"}, stderr : {"", "Found 3 errors"}]
    \cup [kind : {"timeout"}, returncode : {0}, stdout : {""}, stderr : {""}]
    \cup [kind : {"error"}, returncode : {0}, stdout : {""},
          stderr : {"No such file or directory"}]

\* Mutant: every gate is held to the no-output rule.
ExitStatus_Strict(gate_name, returncode, stdout) ==
    IF returncode = 0 /\ stdout = "" THEN "passed" ELSE "failed"
\* `status = PASSED if result.returncode == 0 else FAILED`
ExitStatus(gate_name, returncode, stdout) ==
    IF returncode = 0 THEN "passed" ELSE "failed"

\* Mutant: the timeout diagnostic names DEFAULT_GATE_TIMEOUT.
GateResult_DefaultTimeout(gate_name, config, o) ==
    [name |-> gate_name,
     status |-> IF o.kind = "exit" /\ o.returncode = 0 THEN "passed" ELSE "failed",
     command |-> config.command, output |-> o.stdout,
     error |-> IF o.kind = "timeout" THEN "Timeout after 300 seconds" ELSE o.stderr]
\* The GateResult run_gate builds for a configured gate.
GateResult(gate_name, config, o) ==
    IF o.kind = "exit"
    THEN [name |-> gate_name, status |-> ExitStatus(gate_name, o.returncode, o.stdout),
          command |-> config.command, output |-> o.stdout, error |-> o.stderr]
    ELSE IF o.kind = "timeout"
    THEN [name |-> gate_name, status |-> "failed", command |-> config.command,
          output |-> "",
          error |-> "Timeout after " \o ToString(config.timeout) \o " seconds"]
    ELSE [name |-> gate_name, status |-> "failed", command |-> config.command,
          output |-> "", error |-> o.stderr]

\* Before the first call: no child process, no result, no thread.
NoProc == [gate |-> "", kind |-> "none", returncode |-> 0, stdout |-> "", stderr |-> ""]
NoResult == [name |-> "", status |-> "pending", command |-> "", output |-> "", error |-> ""]
NoOutcome == [kind |-> "none", returncode |-> 0, stdout |-> "", stderr |-> ""]
NoThread == [pc |-> "none", o |-> NoOutcome, result |-> NoResult]

\* Mutant: a result is stored under every name the table has.
StoreResult_Shared(res, gate_name, gate_result) ==
    [k \in DOMAIN res \cup {gate_name} |-> gate_result]
\* self.results[gate_name] = gate_result
StoreResult(res, gate_name, gate_result) == DictSet(res, gate_name, gate_result)

\* The child process o as the run of gate_name.
ProcOf(gate_name, o) ==
    [gate |-> gate_name, kind |-> o.kind, returncode |-> o.returncode,
     stdout |-> o.stdout, stderr |-> o.stderr]

\* Mutant: the skipped result is recorded like any other.
run_gate_Recorded(gate_name, o) ==
    /\ ~awaiting
    /\ runs < MaxRuns
    /\ runs' = runs + 1
    /\ IF gate_name \notin DOMAIN profile
       THEN /\ returned' = [name |-> gate_name, status |-> "skipped", command |-> "",
                            output |-> "Gate not configured for this profile",
                            error |-> ""]
            /\ executed' = <<>>
            /\ results' = StoreResult(results, gate_name, returned')
            /\ UNCHANGED proc
       ELSE /\ proc' = ProcOf(gate_name, o)
            /\ returned' = GateResult(gate_name, profile[gate_name], o)
            /\ results' = StoreResult(results, gate_name, returned')
            /\ executed' = <<proc'>>
    /\ UNCHANGED <<profile, returned_all, awaiting, thread>>
    /\ UNCHANGED <<sessionVars, phaseVars, loopVars, scopeVars, hookVars>>
\* run_gate(gate_name): skipped, and nothing recorded, for a gate the profile
\* does not configure; else the result is recorded in self.results.
run_gate(gate_name, o) ==
    /\ ~awaiting
    /\ runs < MaxRuns
    /\ runs' = runs + 1
    /\ IF gate_name \notin DOMAIN profile
       THEN /\ returned' = [name |-> gate_name, status |-> "skipped", command |-> "",
                            output |-> "Gate not configured for this profile",
                            error |-> ""]
            /\ executed' = <<>>
            /\ UNCHANGED <<results, proc>>
       ELSE /\ proc' = ProcOf(gate_name, o)
            /\ returned' = GateResult(gate_name, profile[gate_name], o)
            /\ results' = StoreResult(results, gate_name, returned')
            /\ executed' = <<proc'>>
    /\ UNCHANGED <<profile, returned_all, awaiting, thread>>
    /\ UNCHANGED <<sessionVars, phaseVars, loopVars, scopeVars, hookVars>>

\* self.profile.gates.items(): a dict keeps insertion order.
GateOrder == <<"lint", "test", "type">>
IsBlocking(p, g) == g \in DOMAIN p /\ p[g].blocking
\* Mutant: every configured gate counts as blocking.
BlockingGates_All(p) == SelectSeq(GateOrder, LAMBDA g : g \in DOMAIN p)
\* [name for name, config in self.profile.gates.items() if config.blocking]
BlockingGates(p) == SelectSeq(GateOrder, LAMBDA g : IsBlocking(p, g))

\* Mutant: only the gates that have a result are looked at.
all_blocking_passed_Recorded(p, res) ==
    \A g \in DOMAIN res : IsBlocking(p, g) => res[g].status = "passed"
\* all_blocking_passed(): False at the first blocking gate with no result or
\* with a result that is not PASSED, else True.
all_blocking_passed(p, res) ==
    \A g \in DOMAIN p :
        p[g].blocking => (g \in DOMAIN res /\ res[g].status = "passed")

\* get_failed_gates(): the names of the results with status FAILED.
get_failed_gates(res) == {g \in DOMAIN res : res[g].status = "failed"}

\* {k: v for k, v in self.results.items() if self.profile.gates[k].blocking}
BlockingResults(p, res) == [k \in {g \in DOMAIN res : p[g].blocking} |-> res[k]]

\* run_gate for the gates of seq one after the other, outs[g] being what the
\* child process of gate g does.
RECURSIVE RunSeq(_, _, _, _)
RunSeq(p, res, seq, outs) ==
    IF seq = <<>> THEN res
    ELSE RunSeq(p, StoreResult(res, Head(seq), GateResult(Head(seq), p[Head(seq)], outs[Head(seq)])),
                Tail(seq), outs)

\* The child processes of the gates of seq, in that order.
RECURSIVE ProcSeq(_, _)
ProcSeq(seq, outs) ==
    IF seq = <<>> THEN <<>>
    ELSE <<ProcOf(Head(seq), outs[Head(seq)])>> \o ProcSeq(Tail(seq), outs)

\* run_all_blocking(): run_gate for each blocking gate in profile order, then
\* the blocking entries of self.results.
run_all_blocking(outs) ==
    /\ ~awaiting
    /\ runs < MaxRuns
    /\ runs' = runs + 1
    /\ LET seq == BlockingGates(profile)
       IN /\ DOMAIN outs = Range(seq)
          /\ results' = RunSeq(profile, results, seq, outs)
          /\ executed' = ProcSeq(seq, outs)
          /\ returned_all' = BlockingResults(profile, results')
          /\ IF seq = <<>>
             THEN UNCHANGED <<proc, returned>>
             ELSE LET g == seq[Len(seq)]
                  IN /\ proc' = ProcOf(g, outs[g])
                     /\ returned' = GateResult(g, profile[g], outs[g])
    /\ UNCHANGED <<profile, awaiting, thread>>
    /\ UNCHANGED <<sessionVars, phaseVars, loopVars, scopeVars, hookVars>>

\* run_all_blocking_async(): one run_gate_async task per blocking gate, each
\* run_gate in a thread of the default executor, then `await asyncio.gather`.
\* The caller is suspended until the return, so it makes no other call.
run_all_blocking_async_call ==
    /\ ~awaiting
    /\ runs < MaxRuns
    /\ runs' = runs + 1
    /\ awaiting' = TRUE
    /\ thread' = [g \in GateNames |->
                    IF g \in Range(BlockingGates(profile))
                    THEN [NoThread EXCEPT !.pc = "queued"] ELSE NoThread]
    /\ executed' = <<>>
    /\ UNCHANGED <<profile, results, proc, returned, returned_all>>
    /\ UNCHANGED <<sessionVars, phaseVars, loopVars, scopeVars, hookVars>>

\* A thread's run_gate up to the construction of gate_result (a local).
gate_thread_run(g, o) ==
    /\ awaiting
    /\ thread[g].pc = "queued"
    /\ thread' = [thread EXCEPT
            ![g] = [pc |-> "computed", o |-> o, result |-> GateResult(g, profile[g], o)]]
    /\ executed' = Append(executed, ProcOf(g, o))
    /\ UNCHANGED <<profile, results, proc, returned, returned_all, awaiting, runs>>
    /\ UNCHANGED <<sessionVars, phaseVars, loopVars, scopeVars, hookVars>>

\* The thread's `self.results[gate_name] = gate_result; return gate_result`.
gate_thread_store(g) ==
    /\ awaiting
    /\ thread[g].pc = "computed"
    /\ results' = StoreResult(results, g, thread[g].result)
    /\ returned' = thread[g].result
    /\ proc' = ProcOf(g, thread[g].o)
    /\ thread' = [thread EXCEPT ![g].pc = "done"]
    /\ UNCHANGED <<profile, returned_all, awaiting, runs, executed>>
    /\ UNCHANGED <<sessionVars, phaseVars, loopVars, scopeVars, hookVars>>

\* gather completes when every task has; then
\* {k: v for k, v in self.results.items() if k in blocking_gates}.
AllDone(th) == \A g \in GateNames : th[g].pc \in {"none", "done"}
run_all_blocking_async_return ==
    /\ awaiting
    /\ AllDone(thread)
    /\ returned_all' =
          [k \in {g \in DOMAIN results : g \in Range(BlockingGates(profile))} |-> results[k]]
    /\ awaiting' = FALSE
    /\ thread' = [g \in GateNames |-> NoThread]
    /\ UNCHANGED <<profile, results, proc, returned, runs, executed>>
    /\ UNCHANGED <<sessionVars, phaseVars, loopVars, scopeVars, hookVars>>

\* ---------------------------------------------------------------- phases
\* phase_markers of _extract_phase, in the dict's (insertion) order.
MarkerOrder ==
    <<"[INIT]", "[UNDERSTAND]", "[PLAN]", "[EXECUTE]", "[VERIFY]", "[COMMIT]",
      "[DONE]", "[EVALUATE]">>
Markers == Range(MarkerOrder)
PhaseOfMarker ==
    [m \in Markers |->
        CASE m = "[INIT]" -> "init" [] m = "[UNDERSTAND]" -> "understand"
          [] m = "[PLAN]" -> "plan" [] m = "[EXECUTE]" -> "execute"
          [] m = "[VERIFY]" -> "verify" [] m = "[COMMIT]" -> "commit"
          [] m = "[DONE]" -> "done" [] m = "[EVALUATE]" -> "evaluate"]

\* VALID_PHASE_TRANSITIONS
VALID_PHASE_TRANSITIONS ==
    [ph \in {"init", "understand", "plan", "execute", "verify", "commit",
             "evaluate", "done", "error"} |->
        CASE ph = "init" -> <<"understand">>
          [] ph = "understand" -> <<"plan">>
          [] ph = "plan" -> <<"execute">>
          [] ph = "execute" -> <<"verify", "execute">>
          [] ph = "verify" -> <<"commit", "execute">>
          [] ph = "commit" -> <<"evaluate">>
          [] ph = "evaluate" -> <<"done", "execute">>
          [] ph = "done" -> <<>>
          [] ph = "error" -> <<>>]

\* Mutant: no phase may follow itself.
validate_phase_transition_NoLoop(from, to) ==
    /\ from \in DOMAIN VALID_PHASE_TRANSITIONS
    /\ to \in Range(VALID_PHASE_TRANSITIONS[from])
    /\ to # from
\* _validate_phase_transition: VALID_PHASE_TRANSITIONS.get(from_phase, []),
\* then `to_phase in valid_targets`.
validate_phase_transition(from, to) ==
    LET valid_targets == IF from \in DOMAIN VALID_PHASE_TRANSITIONS
                         THEN VALID_PHASE_TRANSITIONS[from] ELSE <<>>
    IN to \in Range(valid_targets)

\* Mutant: a marker whose transition is not in the table is not followed.
extract_phase_Validated(text, current) ==
    LET found == SelectSeq(MarkerOrder, LAMBDA m : m \in Range(text))
    IN IF found # <<>> /\ validate_phase_transition(current, PhaseOfMarker[found[1]])
       THEN PhaseOfMarker[found[1]] ELSE current
\* _extract_phase: `for marker, phase in phase_markers.items(): if marker in
\* content: return phase`, else current_phase.  The transition is validated
\* and the answer ignored.
extract_phase(text, current) ==
    LET found == SelectSeq(MarkerOrder, LAMBDA m : m \in Range(text))
    IN IF found = <<>> THEN current ELSE PhaseOfMarker[found[1]]

\* Texts: markers and other words, up to MaxContent tokens.
Tokens == Markers \cup {"word"}
Contents == UNION {[1..n -> Tokens] : n \in 0..MaxContent}
PhaseInputsAll == DOMAIN VALID_PHASE_TRANSITIONS \cup {"unknown"}
NoPhaseCall == [op |-> "none", to |-> "", value |-> ""]

call_extract_phase ==
    /\ phase_ret' = [op |-> "extract", to |-> "", value |-> extract_phase(content, from_phase)]
    /\ UNCHANGED <<content, from_phase>>
    /\ UNCHANGED <<sessionVars, gateVars, loopVars, scopeVars, hookVars>>

call_validate_phase_transition(to_phase) ==
    /\ phase_ret' = [op |-> "validate", to |-> to_phase,
                     value |-> IF validate_phase_transition(from_phase, to_phase)
                               THEN "true" ELSE "false"]
    /\ UNCHANGED <<content, from_phase>>
    /\ UNCHANGED <<sessionVars, gateVars, loopVars, scopeVars, hookVars>>

\* ---------------------------------------------------------------- loop
\* The messages query() may deliver: a SystemMessage, an AssistantMessage with
\* its TextBlocks (each a text), a ResultMessage with its subtype.
MessageInputs ==
    {[type |-> "system", blocks |-> <<>>, subtype |-> "init"]}
    \cup {[type |-> "assistant", blocks |-> b, subtype |-> ""] :
             b \in {<< <<"word">> >>, << <<"[EXECUTE]">> >>, << <<"[DONE]">> >>,
                    << <<"[PLAN]">>, <<"[EXECUTE]">> >>}}
    \cup {[type |-> "result", blocks |-> <<>>, subtype |-> st] :
             st \in {"success", "error", "error_max_turns"}}
CeilingInputs == 0..MaxIterations

\* _process_assistant_message: each TextBlock in turn through _extract_phase.
RECURSIVE process_assistant_message(_, _)
process_assistant_message(blocks, current) ==
    IF blocks = <<>> THEN current
    ELSE process_assistant_message(Tail(blocks), extract_phase(Head(blocks), current))

\* _process_result_message
process_result_message(subtype, current) ==
    IF subtype = "success" THEN "done"
    ELSE IF subtype = "error" THEN "error" ELSE current

\* _process_message, as far as the phase goes.
process_message(message, current) ==
    IF message.type = "assistant" THEN process_assistant_message(message.blocks, current)
    ELSE IF message.type = "result" THEN process_result_message(message.subtype, current)
    ELSE current

\* Mutant: only a final phase ends the loop.
LoopBreaks_NoCeiling(phase, n, ceiling) == phase \in {"done", "error"}
\* `if current_phase in ("done", "error") or iteration >= max_iterations: break`
LoopBreaks(phase, n, ceiling) == phase \in {"done", "error"} \/ n >= ceiling

LoopResult(phase, n) == [phase |-> phase, iteration |-> n, success |-> phase = "done"]
NoSessionToResume == "No session to resume"

\* loop(task, resume, max_iterations) up to the first wait for a message:
\* resume loads the session or raises ValueError; otherwise create(); then
\* _run_with_agent_sdk sets iteration = 0 and current_phase = "init".
loop(resume, ceiling) ==
    /\ loop_pc = "idle"
    /\ IF resume /\ LoadRaises(Root)
       THEN /\ raised' = UnreadableRecord
            /\ loop_pc' = "stopped"
            /\ UNCHANGED <<alive, auto_flush, cached, dirty, state_file, fork_files,
                           history, heap, unused, mutations>>
       ELSE IF resume
       THEN /\ cached' = LoadCached(Root)
            /\ heap' = Collect(LoadHeap(Root), cached')
            /\ raised' = IF Cur(Root) = None THEN NoSessionToResume ELSE NoError
            /\ loop_pc' = IF Cur(Root) = None THEN "stopped" ELSE "waiting"
            /\ UNCHANGED <<alive, auto_flush, dirty, state_file, fork_files,
                           history, unused, mutations>>
       ELSE /\ Create(Root)
            /\ loop_pc' = "waiting"
    /\ iteration' = 0
    /\ current_phase' = "init"
    /\ max_iterations' = ceiling
    /\ UNCHANGED <<consumed, yielded>>
    /\ UNCHANGED <<gateVars, phaseVars, scopeVars, hookVars>>

\* One turn of `async for message in query(...)`: iteration += 1,
\* _process_message, session_manager.update_phase(current_phase), yield.
loop_message(message) ==
    /\ loop_pc = "waiting"
    /\ consumed' = consumed + 1
    /\ iteration' = iteration + 1
    /\ current_phase' = process_message(message, current_phase)
    /\ UpdatePhase(Root, current_phase')
    /\ yielded' = Append(yielded, LoopResult(current_phase', iteration'))
    /\ loop_pc' = "yielded"
    /\ UNCHANGED max_iterations
    /\ UNCHANGED <<gateVars, phaseVars, scopeVars, hookVars>>

\* The consumer asks for the next result: the generator goes on after its
\* yield, to the break test, or leaves the except block.
loop_next ==
    /\ loop_pc \in {"yielded", "yielded_error"}
    /\ loop_pc' = IF loop_pc = "yielded_error"
                     \/ LoopBreaks(current_phase, iteration, max_iterations)
                  THEN "stopped" ELSE "waiting"
    /\ UNCHANGED <<iteration, current_phase, max_iterations, consumed, yielded>>
    /\ UNCHANGED <<sessionVars, gateVars, phaseVars, scopeVars, hookVars>>

\* query() is exhausted: the `async for` ends.
loop_stream_end ==
    /\ loop_pc = "waiting"
    /\ loop_pc' = "stopped"
    /\ UNCHANGED <<iteration, current_phase, max_iterations, consumed, yielded>>
    /\ UNCHANGED <<sessionVars, gateVars, phaseVars, scopeVars, hookVars>>

\* query() raises: `except Exception` yields _make_error_result(...).
loop_exception ==
    /\ loop_pc = "waiting"
    /\ yielded' = Append(yielded, [LoopResult("error", iteration) EXCEPT !.success = FALSE])
    /\ loop_pc' = "yielded_error"
    /\ UNCHANGED <<iteration, current_phase, max_iterations, consumed>>
    /\ UNCHANGED <<sessionVars, gateVars, phaseVars, scopeVars, hookVars>>

\* The consumer closes the generator at a yield, or the task is cancelled
\* while it waits: GeneratorExit and CancelledError are not `Exception`, no
\* handler runs.
loop_close ==
    /\ loop_pc \in {"waiting", "yielded", "yielded_error"}
    /\ loop_pc' = "stopped"
    /\ UNCHANGED <<iteration, current_phase, max_iterations, consumed, yielded>>
    /\ UNCHANGED <<sessionVars, gateVars, phaseVars, scopeVars, hookVars>>

\* After the loop has ended the process exits, and a new one opens the same
\* state directory.
reopen == loop_pc = "stopped" /\ restart

\* ---------------------------------------------------------------- init
InitSession ==
    /\ alive = [s \in Stores |-> s = Root]
    /\ auto_flush \in {[s \in Stores |-> b] : b \in BOOLEAN}
    /\ cached = [s \in Stores |-> None]
    /\ dirty = [s \in Stores |-> FALSE]
    /\ state_file = [s \in Stores |-> None]
    /\ fork_files = [s \in Stores |-> EmptyDict]
    /\ history = [s \in Stores |-> EmptyDict]
    /\ heap = [r \in Refs |-> EmptyDict]
    /\ unused = IdPool
    /\ raised = NoError


\* QualityGates(profile=profile): results == {}
InitGates ==
    /\ profile \in ProfileInputs
    /\ results = EmptyDict
    /\ proc = NoProc
    /\ returned = NoResult
    /\ runs = 0
    /\ executed = <<>>
    /\ returned_all = EmptyDict
    /\ awaiting = FALSE
    /\ thread = [g \in GateNames |-> NoThread]

InitScopeIdle == entered = {} /\ clock = 0

\* HookManager(...): self._cost_tracking = CostTracking()
InitHooksIdle ==
    /\ cost_tracking = NewCostTracking
    /\ tool_call = NoToolCall
    /\ hook_result = NoHookResult
    /\ active_agents = <<>>
    /\ agent_history = <<>>
    /\ event = NoEvent

InitPhaseIdle == content = <<>> /\ from_phase = "init" /\ phase_ret = NoPhaseCall

\* ClaudeSentient(...): loop() has not been called.
InitLoopIdle ==
    /\ loop_pc = "idle"
    /\ iteration = 0
    /\ current_phase = "init"
    /\ max_iterations = 0
    /\ consumed = 0
    /\ yielded = <<>>

Init ==
    /\ InitSession /\ InitGates /\ InitPhaseIdle /\ InitLoopIdle /\ InitScopeIdle /\ InitHooksIdle
    /\ profile = PythonProfile /\ mutations = MaxMutations

Next ==
    \/ \E s \in Stores : flush(s)
    \/ \E s \in Stores : create(s)
    \/ \E s \in Stores, phase \in PhaseInputs : update_phase(s, phase)
    \/ \E s \in Stores : increment_iteration(s)
    \/ \E s \in Stores, c \in CommitInputs : add_commit(s, c)
    \/ \E s \in Stores, f \in FileInputs : add_file_change(s, f)
    \/ \E s \in Stores, g \in GateUpdateInputs : update_gate(s, g[1], g[2])
    \/ \E s \in Stores : increment_tasks_completed(s)
    \/ \E s \in Stores, a \in AmountInputs, p \in CostTagInputs : add_cost(s, a, p[1], p[2])
    \/ \E s \in Stores, b \in BudgetInputs : set_budget(s, b)
    \/ \E s \in Stores : fork(s)
    \/ \E s, f \in Stores : merge_fork(s, f)
    \/ \E s \in Stores : clear(s)
    \/ restart

Spec == Init /\ [][Next]_vars

\* The gate runner on its own: any profile, any sequence of gate runs.
InitG ==
    /\ InitGates /\ InitSession /\ InitPhaseIdle /\ InitLoopIdle /\ InitScopeIdle /\ InitHooksIdle
    /\ auto_flush[Root] = FALSE /\ mutations = 0
\* What the child processes of a call that runs the gates gs do: each exits
\* or times out.
BatchOutcomes == {o \in ProcOutcomes : o.stderr = ""}
OutcomeInputs(gs) == [gs -> BatchOutcomes]
\* The names run_gate is called with: the profile's gates and one that no
\* profile configures.
GateInputs == GateNames \cup {"build"}
NextG ==
    \/ \E g \in GateInputs, o \in ProcOutcomes : run_gate(g, o)
    \/ \E outs \in OutcomeInputs(Range(BlockingGates(profile))) : run_all_blocking(outs)
SpecGates == InitG /\ [][NextG]_vars

\* The parallel variant, with single runs before and after it.
NextAsync ==
    \/ \E g \in GateNames, o \in BatchOutcomes : run_gate(g, o)
    \/ run_all_blocking_async_call
    \/ \E g \in GateNames, o \in BatchOutcomes : gate_thread_run(g, o)
    \/ \E g \in GateNames : gate_thread_store(g)
    \/ run_all_blocking_async_return
SpecAsync == InitG /\ [][NextAsync]_vars

\* A session and its fork changing side by side: the operations that feed
\* merge_fork's lists and gates, without clear and restart.
InitMerge ==
    /\ InitSession /\ InitGates /\ InitPhaseIdle /\ InitLoopIdle /\ InitScopeIdle /\ InitHooksIdle
    /\ profile = PythonProfile /\ mutations = MaxMergeMutations
NextMerge ==
    \/ \E input_data \in WriteInputs : on_post_tool_use(Root, input_data)
    \/ \E s \in Stores : flush(s)
    \/ \E s \in Stores : create(s)
    \/ \E s \in Stores, c \in CommitInputs : add_commit(s, c)
    \/ \E s \in Stores, f \in FileInputs : add_file_change(s, f)
    \/ \E s \in Stores, g \in GateUpdateInputs : update_gate(s, g[1], g[2])
    \/ \E s \in Stores : fork(s)
    \/ \E s, f \in Stores : merge_fork(s, f)
SpecMerge == InitMerge /\ [][NextMerge]_vars

\* The phase functions on their own: any text and any phases.
InitPhase ==
    /\ InitGates /\ InitSession /\ InitLoopIdle /\ InitScopeIdle /\ InitHooksIdle
    /\ auto_flush[Root] = FALSE /\ mutations = 0
    /\ profile = PythonProfile
    /\ content \in Contents
    /\ from_phase \in PhaseInputsAll
    /\ phase_ret = NoPhaseCall
NextPhase ==
    \/ call_extract_phase
    \/ \E to_phase \in PhaseInputsAll : call_validate_phase_transition(to_phase)
SpecPhase == InitPhase /\ [][NextPhase]_vars

\* The driver loop of one ClaudeSentient over a state directory that is empty
\* or holds the record an earlier session left.
EarlierRecord ==
    [asdict(NewState(<<"session", "id-0">>, <<"d1", "d2">>), [r \in Refs |-> EmptyDict])
        EXCEPT !.phase = "plan"]
InitLoop ==
    /\ InitGates /\ InitPhaseIdle /\ InitLoopIdle /\ InitScopeIdle /\ InitHooksIdle
    /\ profile = PythonProfile
    /\ alive = [s \in Stores |-> s = Root]
    /\ auto_flush = [s \in Stores |-> FALSE]
    /\ cached = [s \in Stores |-> None]
    /\ dirty = [s \in Stores |-> FALSE]
    /\ state_file \in {[s \in Stores |-> IF s = Root THEN f ELSE None] :
                          f \in {None, EarlierRecord}}
    /\ fork_files = [s \in Stores |-> EmptyDict]
    /\ history = [s \in Stores |-> EmptyDict]
    /\ heap = [r \in Refs |-> EmptyDict]
    /\ unused = IdPool
    /\ raised = NoError
    /\ mutations = MaxIterations + 1
LoopStep ==
    \/ \E message \in MessageInputs : loop_message(message)
    \/ loop_next
NextLoop ==
    \/ \E resume \in BOOLEAN, ceiling \in CeilingInputs : loop(resume, ceiling)
    \/ \E message \in MessageInputs : loop_message(message)
    \/ loop_next
    \/ loop_stream_end
    \/ loop_exception
    \/ loop_close
    \/ reopen
\* The runtime goes on delivering messages for as long as the loop asks for
\* them, and the consumer goes on asking for results.
SpecLoop ==
    /\ InitLoop /\ [][NextLoop]_vars
    /\ WF_vars(\E resume \in BOOLEAN, ceiling \in CeilingInputs : loop(resume, ceiling))
    /\ WF_vars(LoopStep)

\* A store used inside a `with` block, with batched writes.
InitWith ==
    /\ InitSession /\ InitGates /\ InitPhaseIdle /\ InitLoopIdle /\ InitScopeIdle /\ InitHooksIdle
    /\ profile = PythonProfile /\ mutations = MaxMergeMutations
NextWith ==
    \/ with_enter(Root)
    \/ \E exc \in {NoError, BlockError} : with_exit(Root, exc)
    \/ create(Root)
    \/ flush(Root)
    \/ clear(Root)
    \/ \E phase \in PhaseInputs : update_phase(Root, phase)
    \/ \E f \in FileInputs : add_file_change(Root, f)
    \/ \E a \in AmountInputs, p \in CostTagInputs : add_cost(Root, a, p[1], p[2])
SpecWith == InitWith /\ [][NextWith]_vars

\* One store over time: sessions are created, changed and flushed, and a new
\* process opens the directory again.
InitRound ==
    /\ InitSession /\ InitGates /\ InitPhaseIdle /\ InitLoopIdle /\ InitScopeIdle /\ InitHooksIdle
    /\ profile = PythonProfile /\ mutations = MaxMergeMutations
NextRound ==
    \/ tick
    \/ create(Root)
    \/ flush(Root)
    \/ restart
    \/ \E phase \in PhaseInputs : update_phase(Root, phase)
    \/ \E c \in CommitInputs : add_commit(Root, c)
    \/ \E g \in GateUpdateInputs : update_gate(Root, g[1], g[2])
    \/ \E a \in AmountInputs, p \in CostTagInputs : add_cost(Root, a, p[1], p[2])
    \/ \E b \in BudgetInputs : set_budget(Root, b)
SpecRound == InitRound /\ [][NextRound]_vars

\* A store opened over a directory whose session.json is absent or does not
\* hold a session record.
InitCorrupt ==
    /\ InitGates /\ InitPhaseIdle /\ InitLoopIdle /\ InitScopeIdle /\ InitHooksIdle
    /\ profile = PythonProfile
    /\ alive = [s \in Stores |-> s = Root]
    /\ auto_flush \in {[s \in Stores |-> b] : b \in BOOLEAN}
    /\ cached = [s \in Stores |-> None]
    /\ dirty = [s \in Stores |-> FALSE]
    /\ state_file \in {[s \in Stores |-> IF s = Root THEN f ELSE None] :
                          f \in {None} \cup CorruptRecords}
    /\ fork_files = [s \in Stores |-> EmptyDict]
    /\ history = [s \in Stores |-> EmptyDict]
    /\ heap = [r \in Refs |-> EmptyDict]
    /\ unused = IdPool
    /\ raised = NoError
    /\ mutations = MaxMutations
NextCorrupt ==
    \/ load(Root)
    \/ create(Root)
    \/ flush(Root)
    \/ clear(Root)
    \/ fork(Root)
    \/ \E phase \in PhaseInputs : update_phase(Root, phase)
    \/ \E f \in FileInputs : add_file_change(Root, f)
    \/ \E a \in AmountInputs, p \in CostTagInputs : add_cost(Root, a, p[1], p[2])
    \/ increment_iteration(Root)
    \/ \E c \in CommitInputs : add_commit(Root, c)
    \/ \E g \in GateUpdateInputs : update_gate(Root, g[1], g[2])
    \/ increment_tasks_completed(Root)
    \/ \E b \in BudgetInputs : set_budget(Root, b)
SpecCorrupt == InitCorrupt /\ [][NextCorrupt]_vars

\* The two ledgers: the session's cost fields and the hook manager's
\* CostTracking.
InitBudget ==
    /\ InitSession /\ InitGates /\ InitPhaseIdle /\ InitLoopIdle
    /\ InitScopeIdle /\ InitHooksIdle
    /\ profile = PythonProfile /\ mutations = MaxLedgerOps
NextBudget ==
    \/ create(Root)
    \/ flush(Root)
    \/ \E a \in LedgerAmounts, p \in CostTagInputs : add_cost(Root, a, p[1], p[2])
    \/ \E b \in LedgerBudgets : set_budget(Root, b)
    \/ \E a \in LedgerAmounts, p \in CostTagInputs : HookManager_add_cost(a, p[1], p[2])
    \/ \E b \in LedgerBudgets : HookManager_set_budget(b)
SpecBudget == InitBudget /\ [][NextBudget]_vars

\* One session under a long run of PreCompact events, the iteration going up
\* in between so that the backups differ.
InitCompact ==
    /\ InitSession /\ InitGates /\ InitPhaseIdle /\ InitLoopIdle
    /\ InitScopeIdle /\ InitHooksIdle
    /\ profile = PythonProfile /\ mutations = MaxCompactEvents
NextCompact ==
    \/ create(Root)
    \/ on_pre_compact(Root)
    \/ increment_iteration(Root)
SpecCompact == InitCompact /\ [][NextCompact]_vars

\* The agent tables of a hook manager.  The history it starts with is the one
\* n earlier agents have left, started and stopped one after the other at
\* clock 0, the first of them failed: empty, one short of the limit, or full.
AgentIds == {"a1", "a2"}
PastAgents(n) ==
    [i \in 1..n |->
        [SubagentInfo([agent_id |-> IF i % 2 = 1 THEN "a1" ELSE "a2"]) EXCEPT
            !.start_time = 0, !.end_time = <<0>>,
            !.status = IF i = 1 THEN "failed" ELSE "completed"]]
SubagentStartInputs ==
    {[agent_id |-> "a1"],
     [agent_id |-> "a2", subagent_type |-> "Explore", model |-> "haiku",
      description |-> "look around", run_in_background |-> TRUE],
     [subagent_type |-> "Plan"]}
SubagentStopInputs ==
    {[agent_id |-> a, success |-> b, result_summary |-> SummaryLimit + 1] :
        a \in AgentIds, b \in BOOLEAN}
    \cup {[agent_id |-> "a1"], [agent_id |-> "a3"], [success |-> FALSE]}
InitAgents ==
    /\ InitSession /\ InitGates /\ InitPhaseIdle /\ InitLoopIdle /\ InitScopeIdle
    /\ profile = PythonProfile /\ mutations = MaxAgentEvents
    /\ auto_flush[Root] = FALSE
    /\ cost_tracking = NewCostTracking
    /\ tool_call = NoToolCall
    /\ hook_result = NoHookResult
    /\ event = NoEvent
    /\ active_agents = <<>>
    /\ agent_history \in {PastAgents(n) :
                            n \in {0, AgentHistoryLimit - 1, AgentHistoryLimit}}
NextAgents ==
    \/ \E input_data \in SubagentStartInputs : on_subagent_start(input_data)
    \/ \E input_data \in SubagentStopInputs : on_subagent_stop(input_data)
    \/ tick
SpecAgents == InitAgents /\ [][NextAgents]_vars

\* Events with fields missing: each payload is a full payload restricted to
\* some of its keys, its tool_input restricted to some of its keys.
Restrict(d, keys) == [k \in DOMAIN d \cap keys |-> d[k]]
Partial(d) == {Restrict(d, keys) : keys \in SUBSET DOMAIN d}
Payloads(full) ==
    UNION {IF "tool_input" \in DOMAIN p
           THEN {[p EXCEPT !.tool_input = ti] : ti \in Partial(p.tool_input)}
           ELSE {p} : p \in Partial(full)}
SessionStartPayloads ==
    Payloads([profile |-> "python", git_branch |-> "main", cwd |-> "/proj",
              session_name |-> "fix"])
PreToolPayloads ==
    Payloads([hook_event_name |-> "PreToolUse", tool_name |-> "Bash",
              tool_input |-> [command |-> <<"rm", "-rf", "/">>]])
    \cup Payloads([hook_event_name |-> "PreToolUse", tool_name |-> "Write",
                   tool_input |-> [file_path |->
                       [root |-> "sep", sep |-> "/", segs |-> <<"etc", "main.py">>]]])
    \cup Payloads([hook_event_name |-> "PreToolUse", tool_name |-> "Bash",
                   tool_input |-> [command |-> <<"ls">>]])
PostToolPayloads ==
    Payloads([hook_event_name |-> "PostToolUse", tool_name |-> "Write",
              tool_input |-> [file_path |-> "a.py"]])
    \cup Payloads([hook_event_name |-> "PostToolUse", tool_name |-> "Bash",
                   tool_input |-> [command |-> <<"git", "commit">>],
                   result |-> <<"commit", "c1">>])
SubagentStartPayloads ==
    Payloads([agent_id |-> "a1", subagent_type |-> "Explore",
              description |-> "look around", model |-> "haiku",
              run_in_background |-> TRUE])
SubagentStopPayloads ==
    Payloads([agent_id |-> "a1", success |-> FALSE,
              result_summary |-> SummaryLimit + 1])
\* The events delivered: each hook with each of its payloads.
Delivered(hook, payloads) ==
    {[hook |-> hook, input_data |-> input_data] : input_data \in payloads}
InitEvents ==
    /\ InitSession /\ InitGates /\ InitPhaseIdle /\ InitLoopIdle
    /\ InitScopeIdle
    /\ cost_tracking = NewCostTracking /\ tool_call = NoToolCall
    /\ hook_result = NoHookResult
    /\ active_agents \in {<<>>, <<SubagentInfo([agent_id |-> "a1"])>>}
    /\ agent_history = <<>>
    /\ event \in Delivered("SessionStart", SessionStartPayloads)
               \cup Delivered("SessionEnd", SessionStartPayloads)
               \cup Delivered("PreToolUse", PreToolPayloads)
               \cup Delivered("PostToolUse", PostToolPayloads)
               \cup Delivered("SubagentStart", SubagentStartPayloads)
               \cup Delivered("SubagentStop", SubagentStopPayloads)
               \cup Delivered("PreCompact", SessionStartPayloads)
               \cup Delivered("Stop", SessionStartPayloads)
    /\ profile = PythonProfile /\ mutations = MaxPayloadEvents
    /\ auto_flush[Root] = FALSE
\* create_default_hooks registers each handler under its hook, and an event
\* goes to the handlers of its hook; track_file_changes and track_commands
\* are registered for PostToolUse.
NextEvents ==
    \/ create(Root)
    \/ event.hook = "SessionStart" /\ on_session_start(Root, event.input_data)
    \/ event.hook = "SessionEnd" /\ on_session_end(Root)
    \/ event.hook = "PreToolUse" /\ on_pre_tool_use(PreToolArgs(event.input_data))
    \/ /\ event.hook = "PostToolUse"
       /\ on_post_tool_use(Root, PostToolArgs(event.input_data))
    \/ event.hook = "SubagentStart" /\ on_subagent_start(event.input_data)
    \/ event.hook = "SubagentStop" /\ on_subagent_stop(event.input_data)
    \/ event.hook = "PreCompact" /\ on_pre_compact(Root)
    \/ event.hook = "Stop" /\ on_stop(Root)
    \/ event.hook = "PostToolUse" /\ track_file_changes(Root, event.input_data)
    \/ event.hook = "PostToolUse" /\ track_commands(Root, event.input_data)
SpecEvents == InitEvents /\ [][NextEvents]_vars

\* The phases the driver writes: current_phase of the loop, which starts at
\* "init" and is then what _extract_phase returns, and "execute" in
\* _run_simulation.
DriverPhases == {"init", "execute"} \cup {PhaseOfMarker[m] : m \in Markers}

\* A session under the driver's phase updates and the hook events.
InitHooks ==
    /\ InitSession /\ InitGates /\ InitPhaseIdle /\ InitLoopIdle
    /\ InitScopeIdle /\ InitHooksIdle
    /\ profile = PythonProfile /\ mutations = MaxHookEvents
NextHooks ==
    \/ create(Root)
    \/ flush(Root)
    \/ \E phase \in DriverPhases : update_phase(Root, phase)
    \/ \E phase \in PhaseEnum : HookManager_update_phase(Root, phase)
    \/ on_session_start(Root, EmptyDict)
    \/ on_session_end(Root)
    \/ \E input_data \in PreToolSamples : on_pre_tool_use(input_data)
    \/ \E input_data \in PostToolSamples : on_post_tool_use(Root, input_data)
    \/ on_pre_compact(Root)
    \/ on_stop(Root)
SpecHooks == InitHooks /\ [][NextHooks]_vars

\* on_pre_tool_use on its own: one event, any of the inputs.
InitPolicy ==
    /\ InitSession /\ InitGates /\ InitPhaseIdle /\ InitLoopIdle /\ InitScopeIdle
    /\ profile = PythonProfile /\ mutations = 0 /\ auto_flush[Root]
    /\ cost_tracking = NewCostTracking
    /\ \/ tool_call \in BashInputs(MaxWords)
       \/ tool_call \in FileInputsOf(MaxSegments)
       \/ tool_call = OtherToolInput
    /\ hook_result = NoHookResult
    /\ active_agents = <<>>
    /\ agent_history = <<>>
    /\ event = NoEvent
NextPolicy == hook_result = NoHookResult /\ on_pre_tool_use(tool_call)
SpecPolicy == InitPolicy /\ [][NextPolicy]_vars

\* ================================================================ claims
\* What load() returns for store s, by value: None when there is no session.
View(s) ==
    IF cached[s] # None THEN asdict(cached[s], heap)
    ELSE IF Parses(state_file[s]) THEN state_file[s] ELSE None
\* Two cached states refer to one dictionary object.
Aliased(a, b) ==
    /\ cached[a] # None /\ cached[b] # None
    /\ LiveRefs(cached, {a}) \cap LiveRefs(cached, {b}) # {}
\* A call of one of the mutators on store s.
MutatorCall(s) ==
    \/ \E phase \in PhaseInputs : update_phase(s, phase)
    \/ increment_iteration(s)
    \/ \E c \in CommitInputs : add_commit(s, c)
    \/ \E f \in FileInputs : add_file_change(s, f)
    \/ \E g \in GateUpdateInputs : update_gate(s, g[1], g[2])
    \/ increment_tasks_completed(s)
    \/ \E a \in AmountInputs, p \in CostTagInputs : add_cost(s, a, p[1], p[2])
    \/ \E b \in BudgetInputs : set_budget(s, b)
NoFork == \A s \in Stores \ {Root} : ~alive[s]

C2_FlushWritesIffDirty ==
    [][\A s \in Stores : flush(s) =>
        /\ IF dirty[s]
           THEN /\ cached[s] # None
                /\ ~dirty'[s]
                /\ state_file'[s] = asdict(cached[s], heap)
           ELSE state_file'[s] = state_file[s] /\ ~dirty'[s]
        /\ \A o \in Stores \ {s} : state_file'[o] = state_file[o] /\ dirty'[o] = dirty[o]
        /\ cached' = cached /\ heap' = heap]_vars
C2_Witness ==
    /\ NoFork /\ ~auto_flush[Root] /\ ~dirty[Root]
    /\ cached[Root] # None /\ cached[Root].phase = "execute"
    /\ state_file[Root] = asdict(cached[Root], heap)

\* C3: after a merge_fork that returns, the parent's file_changes are, as a set,
\* the union of the parent's and the fork's, and the parent's commits contain
\* every commit of both.
C3_MergeUnion ==
    [][\A s, f \in Stores : merge_fork(s, f) /\ raised' = NoError =>
        /\ Range(cached'[s].file_changes) =
              Range(View(s).file_changes) \cup Range(View(f).file_changes)
        /\ Range(View(s).commits) \cup Range(View(f).commits)
              \subseteq Range(cached'[s].commits)]_vars
C3_Witness ==
    /\ Aliased(Root, "fork")
    /\ Len(cached[Root].file_changes) = 2
    /\ Len(cached["fork"].file_changes) = 1
    /\ cached[Root].file_changes[2] = cached["fork"].file_changes[1]

C5_MergeGates ==
    [][\A s, f \in Stores : merge_fork(s, f) /\ raised' = NoError =>
        /\ DOMAIN cached'[s].gates = DOMAIN View(s).gates \cup DOMAIN View(f).gates
        /\ \A g \in DOMAIN View(f).gates : cached'[s].gates[g] = View(f).gates[g]
        /\ \A g \in DOMAIN View(s).gates \ DOMAIN View(f).gates :
              cached'[s].gates[g] = View(s).gates[g]]_vars
C5_Witness ==
    /\ Aliased(Root, "fork")
    /\ DOMAIN cached[Root].gates = {"lint", "test"}
    /\ DOMAIN cached["fork"].gates = {"lint"}
    /\ cached[Root].gates["lint"] = "failed"
    /\ cached["fork"].gates["lint"] = "failed"

\* C6: after a merge_fork that returns, cost_by_phase and cost_by_model of the
\* parent hold the fork's value for every key of the fork and keep the parent's
\* value for every key the fork does not have.
C6_MergeCostsPerKey ==
    [][\A s, f \in Stores : merge_fork(s, f) /\ raised' = NoError =>
        /\ \A k \in DOMAIN View(f).cost_by_phase :
              View(s)'.cost_by_phase[k] = View(f).cost_by_phase[k]
        /\ \A k \in DOMAIN View(s).cost_by_phase \ DOMAIN View(f).cost_by_phase :
              /\ k \in DOMAIN View(s)'.cost_by_phase
              /\ View(s)'.cost_by_phase[k] = View(s).cost_by_phase[k]
        /\ \A k \in DOMAIN View(s).cost_by_model \ DOMAIN View(f).cost_by_model :
              /\ k \in DOMAIN View(s)'.cost_by_model
              /\ View(s)'.cost_by_model[k] = View(s).cost_by_model[k]]_vars

ForkCarries(st, parent) ==
    /\ st.session_id # parent.session_id
    /\ st.parent_session_id = parent.session_id
    /\ [st EXCEPT !.session_id = parent.session_id,
                  !.parent_session_id = parent.parent_session_id] = parent
C8_ForkSnapshot ==
    [][\A s \in Stores : fork(s) /\ raised' = NoError =>
        \E k \in Stores \ {s} :
            /\ ~alive[k] /\ alive'[k]
            /\ cached[s] # None => ForkCarries(View(k)', asdict(cached[s], heap))
            /\ ForkCarries(View(k)', View(s))
            /\ state_file'[k] = View(k)'
            /\ View(k)'.session_id \in DOMAIN fork_files'[s]
            /\ fork_files'[s][View(k)'.session_id] = View(k)']_vars
C8_Witness ==
    /\ alive["fork"] /\ cached[Root] # None /\ ~auto_flush[Root]
    /\ state_file[Root].phase = "init"
    /\ \E id \in DOMAIN fork_files[Root] :
          /\ fork_files[Root][id].phase = "execute"
          /\ fork_files[Root][id].parent_session_id = cached[Root].session_id

\* C9: merge_fork raises when either store has no session or the fork's
\* parent_session_id is not this session's id, and then the session load()
\* gives, the dirty flag and every file are as before; fork() raises when there
\* is no session, and then nothing changes and no store or fork record appears.
C9_PreconditionsRaise ==
    [][/\ \A s, f \in Stores : merge_fork(s, f) =>
            /\ raised' # NoError <=>
                  \/ View(s) = None \/ View(f) = None
                  \/ View(f).parent_session_id # View(s).session_id
            /\ raised' # NoError =>
                  /\ \A o \in Stores : View(o)' = View(o)
                  /\ dirty' = dirty /\ state_file' = state_file
                  /\ fork_files' = fork_files /\ history' = history
       /\ \A s \in Stores : fork(s) =>
            /\ raised' # NoError <=> View(s) = None
            /\ raised' # NoError =>
                  /\ cached' = cached /\ dirty' = dirty /\ state_file' = state_file
                  /\ fork_files' = fork_files /\ alive' = alive /\ unused' = unused]_vars
C9_Witness ==
    /\ raised = NotAChild
    /\ alive["fork"] /\ cached[Root] # None /\ cached["fork"] # None
    /\ cached[Root].parent_session_id # cached["fork"].session_id
    /\ dirty[Root]

\* C10: a lint gate whose command exits is passed exactly when the exit code is
\* 0 and the command wrote no output.
C10_LintFailsOnOutput ==
    returned.name = "lint" /\ returned.status # "skipped" /\ proc.kind = "exit" =>
        (returned.status = "passed" <=> proc.returncode = 0 /\ returned.output = "")

\* The gates the profile marks blocking.
BlockingSet == {h \in DOMAIN profile : profile[h].blocking}
\* The gates whose command the last call launched, in order, and what each
\* command did (of the last launch, were a gate launched twice).
Launched == [i \in DOMAIN executed |-> executed[i].gate]
OutsOf(ex) ==
    [g \in {ex[i].gate : i \in DOMAIN ex} |->
        LET i == CHOOSE j \in DOMAIN ex :
                    ex[j].gate = g /\ \A k \in DOMAIN ex : ex[k].gate = g => k <= j
        IN [kind |-> ex[i].kind, returncode |-> ex[i].returncode,
            stdout |-> ex[i].stdout, stderr |-> ex[i].stderr]]

\* C11: a configured gate other than lint whose command exits is passed exactly
\* when the exit code is 0, whatever it wrote; a non-zero exit code gives failed.
C11_NonLintExitCode ==
    returned.name \in GateNames \ {"lint"} /\ returned.status # "skipped"
            /\ proc.kind = "exit" =>
        /\ proc.gate = returned.name
        /\ returned.status = "passed" <=> proc.returncode = 0
        /\ proc.returncode # 0 => returned.status = "failed"
        /\ returned.output = proc.stdout
C11_Witness ==
    /\ returned.name = "test" /\ returned.status = "passed"
    /\ proc.kind = "exit" /\ proc.returncode = 0 /\ returned.output # ""

\* C12: when the command of a configured gate times out or cannot be launched,
\* the call returns a failed result with a diagnostic; for a timeout the
\* diagnostic is built from the configured timeout of that gate; the result is
\* recorded as the gate's last result.
C12_FailuresAreResults ==
    returned.status # "skipped" /\ proc.kind \in {"timeout", "error"} =>
        /\ proc.gate = returned.name
        /\ returned.status = "failed"
        /\ returned.error # ""
        /\ proc.kind = "timeout" =>
              returned.error =
                  "Timeout after " \o ToString(profile[returned.name].timeout) \o " seconds"
        /\ proc.kind = "error" => returned.error = proc.stderr
        /\ returned.name \in DOMAIN results
        /\ results[returned.name] = returned
C12_Witness ==
    /\ returned.name = "lint" /\ proc.kind = "timeout"
    /\ returned.error = "Timeout after 60 seconds"
    /\ results["lint"].status = "failed"

\* C13: all_blocking_passed() is false while a blocking gate has no result;
\* after a run of a blocking gate it is true exactly when that run passed and
\* every other blocking gate's recorded result is passed; a run of a gate that
\* is not blocking leaves its value as it was.
C13_AllBlockingPassed ==
    [][/\ (\E h \in BlockingSet : h \notin DOMAIN results') =>
              ~all_blocking_passed(profile, results)'
       /\ \A g \in GateNames, o \in ProcOutcomes : run_gate(g, o) =>
            IF g \in BlockingSet
            THEN all_blocking_passed(profile, results)' <=>
                    /\ returned'.status = "passed"
                    /\ \A h \in BlockingSet \ {g} :
                          h \in DOMAIN results /\ results[h].status = "passed"
            ELSE all_blocking_passed(profile, results)' =
                    all_blocking_passed(profile, results)
       /\ run_all_blocking(OutsOf(executed')) =>
            (all_blocking_passed(profile, results)' <=>
                \A h \in BlockingSet :
                    h \in DOMAIN returned_all' /\ returned_all'[h].status = "passed")]_vars
C13_Witness ==
    /\ all_blocking_passed(profile, results)
    /\ BlockingSet = {"lint", "test"}
    /\ "type" \in DOMAIN results /\ results["type"].status = "failed"

\* C14: run_all_blocking() launches the command of every blocking gate exactly
\* once and of no other gate, and returns a map whose keys are exactly the
\* blocking gates, each with the result of its run in this call.
C14_RunAllBlocking ==
    [][run_all_blocking(OutsOf(executed')) =>
        /\ Range(Launched') = BlockingSet
        /\ Len(executed') = Cardinality(BlockingSet)
        /\ DOMAIN returned_all' = BlockingSet
        /\ \A g \in BlockingSet :
              /\ returned_all'[g] = GateResult(g, profile[g], OutsOf(executed')[g])
              /\ results'[g] = returned_all'[g]
        /\ \A g \in DOMAIN results \ BlockingSet :
              g \in DOMAIN results' /\ results'[g] = results[g]]_vars
C14_Witness ==
    /\ Launched = <<"lint", "test">>
    /\ DOMAIN returned_all = {"lint", "test"}
    /\ DOMAIN results = {"lint", "test", "type"}

\* C15: run_all_blocking_async returns only when every blocking gate's thread
\* has stored its result; then, whatever the order in which the threads ran and
\* stored, each blocking gate's recorded result is the one of its own run, and
\* the returned map, the result table and all_blocking_passed() are what the
\* sequential run_all_blocking gives for the same outcome of each gate.
C15_ParallelEqualsSequential ==
    [][run_all_blocking_async_return =>
        LET outs == [g \in BlockingSet |-> thread[g].o]
            seq == RunSeq(profile, results, BlockingGates(profile), outs)
        IN /\ \A g \in BlockingSet :
                 /\ thread[g].pc = "done"
                 /\ g \in DOMAIN results'
                 /\ results'[g] = thread[g].result
                 /\ results'[g].name = g
           /\ results' = seq
           /\ returned_all' = BlockingResults(profile, seq)
           /\ all_blocking_passed(profile, results)' = all_blocking_passed(profile, seq)]_vars
C15_Witness ==
    /\ ~awaiting /\ Launched = <<"test", "lint">>
    /\ DOMAIN returned_all = {"lint", "test"}
    /\ returned_all["lint"].status = "failed" /\ returned_all["test"].status = "passed"
    /\ returned.name = "test"

\* The markers of a text, in the order in which they stand in it.
MarkersIn(text) == SelectSeq(text, LAMBDA tok : tok \in Markers)

\* C17: for a text with several recognized markers, _extract_phase returns the
\* phase of the marker that stands first in the text, whatever the markers and
\* their order.
C17_FirstInContentWins ==
    (phase_ret.op = "extract" /\ Len(MarkersIn(content)) >= 2)
        => phase_ret.value = PhaseOfMarker[MarkersIn(content)[1]]

\* C18: _validate_phase_transition is true exactly for the ten pairs of the
\* table, and false from done, from error and from a phase the table does not
\* know.
C18_ValidPairs ==
    {<<"init", "understand">>, <<"understand", "plan">>, <<"plan", "execute">>,
     <<"execute", "verify">>, <<"execute", "execute">>, <<"verify", "commit">>,
     <<"verify", "execute">>, <<"commit", "evaluate">>, <<"evaluate", "done">>,
     <<"evaluate", "execute">>}
C18_TransitionTable ==
    phase_ret.op = "validate" =>
        /\ phase_ret.value = "true" <=> <<from_phase, phase_ret.to>> \in C18_ValidPairs
        /\ from_phase \in {"done", "error", "unknown"} => phase_ret.value = "false"
C18_Witness ==
    /\ phase_ret.op = "validate"
    /\ from_phase = "execute" /\ phase_ret.to = "execute"
    /\ phase_ret.value = "true"

FinalPhases == {"done", "error"}

\* C19: the driver loop ends.  Each message it takes raises the iteration count
\* by one, writes the tracked phase to the session store and yields one result
\* carrying that phase; it takes no message once the tracked phase is done or
\* error or the count has reached the ceiling; it yields nothing after a
\* result whose phase is done or error; and with a ceiling of at least one it
\* never takes more messages than the ceiling, however many the runtime offers.
C19_LoopTerminates ==
    /\ [][consumed' # consumed =>
            /\ consumed' = consumed + 1
            /\ iteration' = iteration + 1
            /\ cached'[Root] # None /\ cached'[Root].phase = current_phase'
            /\ Len(yielded') = Len(yielded) + 1
            /\ yielded'[Len(yielded')].phase = current_phase'
            /\ yielded'[Len(yielded')].iteration = iteration'
            /\ consumed = 0 \/ (current_phase \notin FinalPhases /\ iteration < max_iterations)]_vars
    /\ [][yielded' # yielded =>
            yielded = <<>> \/ yielded[Len(yielded)].phase \notin FinalPhases]_vars
    /\ [](max_iterations >= 1 => consumed <= max_iterations)
    /\ <>(loop_pc = "stopped")
C19_Witness ==
    /\ loop_pc = "stopped"
    /\ max_iterations = 2 /\ consumed = 2 /\ iteration = 2
    /\ Len(yielded) = 2 /\ yielded[2].phase = "execute"
    /\ cached[Root] # None /\ cached[Root].phase = "execute"

\* C20: once the driver loop has stopped after taking a message, whatever ended
\* it, the session store is flushed: nothing is pending, and the record on
\* disk, which a new store over the directory loads, carries the last phase
\* the driver recorded.
C20_FlushedWhenLoopEnds ==
    (loop_pc = "stopped" /\ consumed > 0) =>
        /\ ~dirty[Root]
        /\ state_file[Root] # None
        /\ state_file[Root].phase = current_phase

\* C21: when a `with` block of a store is left, by its end or by an error
\* raised inside it, the store's dirty flag is clear afterwards and the record
\* on disk equals the cached state, which holds every mutation made in the
\* block.
C21_ExitFlushes ==
    [][\A s \in Stores : (s \in entered /\ s \notin entered') =>
          /\ ~dirty'[s]
          /\ cached'[s] # None => state_file'[s] = asdict(cached'[s], heap')]_vars
C21_Witness ==
    /\ raised = BlockError /\ Root \notin entered
    /\ ~auto_flush[Root] /\ ~dirty[Root]
    /\ cached[Root] # None /\ cached[Root].phase = "execute"
    /\ state_file[Root] # None /\ state_file[Root].phase = "execute"
    /\ state_file[Root].file_changes # <<>>

\* A state by value, without its timestamp.
SansTime(data) == [f \in DOMAIN data \ {"last_updated"} |-> data[f]]

C23_CorruptIsNoSession ==
    [][(cached[Root] = None /\ state_file[Root] \in CorruptRecords) =>
          /\ raised' \in {NoError, NoSessionToFork}
          /\ raised' = NoSessionToFork <=> fork(Root)
          /\ load(Root) => View(Root)' = None
          /\ ~create(Root) => cached'[Root] = None /\ ~dirty'[Root]]_vars

\* C24: clear() on a store holding session s leaves in the history a record
\* under s's id that equals s as load() gave it just before, unflushed
\* mutations included, and leaves the rest of the history alone; afterwards
\* there is no current record, load() gives no session and the dirty flag is
\* clear.  On a store with no session clear() changes nothing.  It never
\* raises.
C24_ClearArchives ==
    [][\A s \in Stores : clear(s) =>
          /\ raised' = NoError
          /\ state_file'[s] = None /\ cached'[s] = None /\ ~dirty'[s]
          /\ View(s)' = None
          /\ IF View(s) = None
             THEN history' = history /\ state_file' = state_file
             ELSE LET sid == View(s).session_id
                  IN /\ DOMAIN history'[s] = DOMAIN history[s] \cup {sid}
                     /\ SansTime(history'[s][sid]) = SansTime(View(s))
                     /\ \A k \in DOMAIN history[s] \ {sid} :
                            history'[s][k] = history[s][k]]_vars
C24_Witness ==
    /\ ~auto_flush[Root] /\ cached[Root] = None /\ state_file[Root] = None
    /\ \E sid \in DOMAIN history[Root] :
          /\ history[Root][sid].phase = "execute"
          /\ history[Root][sid].file_changes # <<>>
    /\ mutations = 0 /\ entered = {} /\ raised = NoError

NoDuplicates(seq) == \A i, j \in DOMAIN seq : i # j => seq[i] # seq[j]
FileRecords ==
    {state_file[s] : s \in Stores}
    \cup UNION {Range(fork_files[s]) \cup Range(history[s]) : s \in Stores}

\* C25: no session, cached or on disk, lists a path twice in file_changes,
\* whatever add_file_change calls, PostToolUse events, forks and merges came
\* before; and adding a path the session already lists, directly or through a
\* PostToolUse event, changes neither the session nor the dirty flag.
C25_NoDuplicateFiles ==
    /\ [](\A s \in Stores : cached[s] # None => NoDuplicates(cached[s].file_changes))
    /\ [](\A file \in FileRecords : Parses(file) => NoDuplicates(file.file_changes))
    /\ [][\A s \in Stores, f \in FileInputs :
            (/\ View(s) # None /\ f \in Range(View(s).file_changes)
             /\ dirty'[s] # dirty[s] \/ View(s)' # View(s) \/ state_file' # state_file)
            => ~(\/ add_file_change(s, f)
                 \/ on_post_tool_use(s, [tool_name |-> "Write", file_path |-> f,
                                         commit |-> ""]))]_vars
C25_Witness ==
    /\ alive["fork"] /\ Aliased(Root, "fork") /\ ~auto_flush[Root]
    /\ cached[Root].file_changes = <<"a.py">>
    /\ cached["fork"].file_changes = <<"a.py">>
    /\ state_file["fork"].file_changes = <<>>

\* C26: the cumulative cost of a session is never negative, and no add_cost,
\* set_budget, fork or merge_fork call on a store lowers the cumulative cost
\* of the store's session.
C26_CostMonotonic ==
    /\ [](\A s \in Stores : View(s) # None => View(s).cost_usd >= 0)
    /\ [][\A s \in Stores :
            (/\ View(s) # None /\ View(s)' # None
             /\ \/ \E a \in AmountInputs, p \in CostTagInputs : add_cost(s, a, p[1], p[2])
                \/ \E b \in BudgetInputs : set_budget(s, b)
                \/ fork(s)
                \/ \E f \in Stores : merge_fork(s, f))
            => View(s)'.cost_usd >= View(s).cost_usd]_vars

\* What the two ledgers report: the session of Root, when there is one, and
\* the hook manager's CostTracking.
Reports ==
    (IF View(Root) = None THEN {}
     ELSE {[cost |-> View(Root).cost_usd, budget |-> View(Root).budget_usd,
            over |-> is_over_budget(Root), remaining |-> get_budget_remaining(Root)]})
    \cup {[cost |-> cost_tracking.total_usd, budget |-> cost_tracking.budget_usd,
           over |-> over_budget(cost_tracking),
           remaining |-> budget_remaining(cost_tracking)]}

\* C27: with a budget set, the remaining budget a ledger reports is the budget
\* less the cost when that is positive and 0 otherwise, it is over budget
\* exactly when the cost exceeds the budget, and then the remaining budget is
\* 0; with no budget set it is not over budget and reports no remaining
\* budget; and an add_cost call on a ledger that is over budget returns and
\* adds the amount to the cost.
C27_BudgetReports ==
    /\ [](\A r \in Reports :
            IF r.budget = NoBudget
            THEN ~r.over /\ r.remaining = NoBudget
            ELSE /\ r.remaining # NoBudget
                 /\ r.remaining[1] >= 0
                 /\ r.cost <= r.budget[1] => r.remaining[1] + r.cost = r.budget[1]
                 /\ r.cost >= r.budget[1] => r.remaining[1] = 0
                 /\ r.over <=> r.cost > r.budget[1]
                 /\ r.over => r.remaining[1] = 0)
    /\ [][\A a \in LedgerAmounts, p \in CostTagInputs :
            /\ (is_over_budget(Root) /\ add_cost(Root, a, p[1], p[2]))
               => /\ raised' = NoError
                  /\ View(Root)'.cost_usd = View(Root).cost_usd + a
                  /\ is_over_budget(Root)'
            /\ (over_budget(cost_tracking) /\ HookManager_add_cost(a, p[1], p[2]))
               => /\ cost_tracking'.total_usd = cost_tracking.total_usd + a
                  /\ over_budget(cost_tracking)']_vars
\* Budget 5.00 and three entries of 2.00.
C27_Witness ==
    /\ View(Root) # None
    /\ View(Root).budget_usd = <<5>> /\ View(Root).cost_usd = 6
    /\ is_over_budget(Root) /\ get_budget_remaining(Root) = <<0>>
    /\ mutations = 0

\* The sessions there are: cached or on disk.
Sessions ==
    {asdict(cached[s], heap) : s \in {x \in Stores : cached[x] # None}}
    \cup {file \in FileRecords : Parses(file)}

DestructiveCommand(c) ==
    \E i \in 1..Len(c) :
        \/ /\ c[i] = "rm" /\ i + 2 <= Len(c) /\ c[i + 1] = "-rf"
           /\ c[i + 2] \in {"/", "~", ".", "/dev/sda"}
        \/ c[i] = ">" /\ i + 1 <= Len(c) /\ c[i + 1] = "/dev/sda"
        \/ c[i] = ":(){:|:&};:"
        \/ c[i] = "history" /\ i + 1 <= Len(c) /\ c[i + 1] = "-c"
\* Warn: sudo before a command; curl piped to a shell; a global npm install.
WarnCommand(c) ==
    \E i \in 1..Len(c) :
        \/ c[i] = "sudo" /\ i < Len(c)
        \/ /\ c[i] = "curl"
           /\ \E j \in (i + 1)..(Len(c) - 1) : c[j] = "|" /\ c[j + 1] = "sh"
        \/ /\ c[i] = "npm" /\ i + 2 <= Len(c)
           /\ c[i + 1] = "install" /\ c[i + 2] = "-g"
\* Protected: under a system directory; under a key directory; a production
\* environment file; the objects, refs or HEAD of a git directory. Upper and
\* lower case and the separator make no difference to where a path leads.
ProtectedPath(f) ==
    LET n == Len(f.segs)
        seg(i) == Lower(f.segs[i])
    IN n > 0 /\
       \/ f.root = "sep" /\ n >= 2 /\ seg(1) = "etc"
       \/ f.root = "C:" /\ n >= 2 /\ seg(1) = "windows"
       \/ \E i \in 1..(n - 1) : seg(i) = ".ssh"
       \/ seg(n) = ".env.production"
       \/ n >= 2 /\ seg(n - 1) = ".git" /\ seg(n) = "head"
\* Looks sensitive: an environment file, a key file, a name with id_rsa in it.
SensitivePath(f) ==
    LET n == Len(f.segs)
    IN n > 0 /\
       \/ Lower(f.segs[n]) \in {".env", "server.pem"}
       \/ \E i \in 1..n : f.segs[i] = "id_rsa"

\* What the claim asks of the result for an input of each class.
Blocks(result) ==
    result.success /\ result.decision = "block" /\ result.reason # NoReason
Warns(result) ==
    result.success /\ result.decision = "allow" /\ result.warnings # <<>>
Allows(result) ==
    result.success /\ result.decision = "allow" /\ result.warnings = <<>>
PolicyAsks(input_data, result) ==
    IF input_data.tool_name = "Bash"
    THEN IF DestructiveCommand(input_data.command) THEN Blocks(result)
         ELSE IF WarnCommand(input_data.command) THEN Warns(result)
         ELSE Allows(result)
    ELSE IF input_data.tool_name \in {"Write", "Edit"}
    THEN IF ProtectedPath(input_data.file_path) THEN Blocks(result)
         ELSE IF SensitivePath(input_data.file_path) THEN Warns(result)
         ELSE Allows(result)
    ELSE Allows(result)

\* C29: the result on_pre_tool_use returns is a block with a reason for a
\* destructive command or a protected path, whatever warn class the input is
\* also in; an allow with a warning for an input of a warn class only; an
\* allow with no warning for any other input.
C29_PolicyDecides ==
    hook_result # NoHookResult => PolicyAsks(tool_call, hook_result)

\* The results there are: the one the last call returned and the recorded ones.
GateResults == {returned} \cup Range(results) \cup Range(returned_all)

\* C30: every gate result with status failed has a text to show, its error or
\* its output, whether the command exited with a non-zero code, timed out or
\* could not be launched.
C30_FailedHasDiagnostic ==
    \A r \in GateResults : r.status = "failed" => r.error # "" \/ r.output # ""

\* C32: a run_gate call for a gate the profile has no entry for returns a
\* skipped result with no error, executes no command, and leaves the recorded
\* results as they were, and with them all_blocking_passed() and the failed
\* gates.
C32_SkippedIsInert ==
    [][(\E g \in GateInputs \ DOMAIN profile, o \in ProcOutcomes : run_gate(g, o)) =>
        /\ returned'.status = "skipped" /\ returned'.error = ""
        /\ executed' = <<>> /\ proc' = proc
        /\ results' = results
        /\ all_blocking_passed(profile, results')
               = all_blocking_passed(profile, results)
        /\ get_failed_gates(results') = get_failed_gates(results)]_vars
C32_Witness ==
    /\ returned.name = "build" /\ returned.status = "skipped"
    /\ executed = <<>> /\ get_failed_gates(results) # {}

\* The markers that occur in a text.
MarkerSet(text) == Range(text) \cap Markers

\* C33: for a content that holds exactly one phase marker _extract_phase
\* returns the phase of that marker whatever the current phase is, also when
\* the transition is not in the table and when the current phase is done or
\* error; for a content without a marker it returns the current phase.
C33_SingleMarkerFollowed ==
    phase_ret.op = "extract" =>
        /\ \A m \in Markers :
              MarkerSet(content) = {m} => phase_ret.value = PhaseOfMarker[m]
        /\ MarkerSet(content) = {} => phase_ret.value = from_phase
C33_Witness ==
    /\ phase_ret.op = "extract" /\ from_phase = "done"
    /\ MarkerSet(content) = {"[EXECUTE]"} /\ "word" \in Range(content)
    /\ ~validate_phase_transition(from_phase, "execute")
    /\ phase_ret.value = "execute"

\* What merge_fork combines, the cost dictionaries by their contents in h.
MergedFields(st, h) ==
    [phase |-> st.phase, iteration |-> st.iteration,
     file_changes |-> st.file_changes, commits |-> st.commits, gates |-> st.gates,
     cost_usd |-> st.cost_usd, cost_by_phase |-> h[st.cost_by_phase],
     cost_by_model |-> h[st.cost_by_model]]

\* C37: merging a fork a second time right after a merge_fork that returned,
\* the fork not having changed, leaves the phase, iteration, file changes,
\* commits, gates and costs of the parent as the first merge left them.
C37_MergeIdempotent ==
    [][\A s, f \in Stores : merge_fork(s, f) /\ raised' = NoError =>
        /\ ~MergeRaises(cached'[s], cached'[f])
        /\ MergedFields(MergeState(cached'[s], cached'[f]), heap')
              = MergedFields(cached'[s], heap')]_vars
C37_Witness ==
    /\ Aliased(Root, "fork") /\ raised = NoError
    /\ Len(cached["fork"].commits) = 1 /\ Len(cached[Root].commits) = 2
    /\ cached[Root].commits[2] = cached["fork"].commits[1]

\* C40: on a store with no session (nothing cached and no record, or a record
\* that does not parse) each of the eight mutators, and a flush after it,
\* raises nothing, leaves the cached state absent and the dirty flag clear,
\* and writes no record.
C40_NoSessionNoOp ==
    [][(View(Root) = None /\ ~dirty[Root] /\ (MutatorCall(Root) \/ flush(Root))) =>
          /\ raised' = NoError
          /\ cached'[Root] = None /\ ~dirty'[Root]
          /\ state_file' = state_file /\ history' = history
          /\ fork_files' = fork_files]_vars

\* C34: whenever a store holds a cached session and its dirty flag is clear,
\* the record on disk equals the cached state in every field but
\* last_updated, whatever calls were made on the store and on its forks,
\* mutators on a merged fork included.
C34_CleanIsDurable ==
    \A s \in Stores :
        (alive[s] /\ cached[s] # None /\ ~dirty[s]) =>
            /\ Parses(state_file[s])
            /\ SansTime(state_file[s]) = SansTime(asdict(cached[s], heap))

\* C36: the session_id in the result of a SessionStart event is the id of the
\* session the store holds when the handler has returned, for a new session
\* and for one that was there; a session that was there keeps its id, phase,
\* iteration, file changes and commits.
C36_StartReportsStoredId ==
    [][(on_session_start(Root, EmptyDict) /\ raised' = NoError) =>
          /\ View(Root)' # None
          /\ hook_result'.context.session_id = View(Root)'.session_id
          /\ View(Root) # None =>
                \A f \in {"session_id", "phase", "iteration", "file_changes", "commits"} :
                    View(Root)'[f] = View(Root)[f]]_vars

\* C35: the backup a PreCompact event appends records the phase, iteration
\* and file changes the session has at that moment, and no later call on the
\* session changes a backup that is in the list.
C35_BackupIsSnapshot ==
    [][/\ (on_pre_compact(Root) /\ raised' = NoError /\ View(Root) # None) =>
            LET backups == View(Root)'.backups
                backup == backups[Len(backups)]
            IN /\ backups # <<>>
               /\ backup.phase = View(Root).phase
               /\ backup.iteration = View(Root).iteration
               /\ backup.files_changed = View(Root).file_changes
       /\ (/\ ~on_pre_compact(Root)
           /\ View(Root) # None /\ View(Root)' # None
           /\ View(Root)'.session_id = View(Root).session_id) =>
            View(Root)'.backups = View(Root).backups]_vars

\* C38: the backups list of a session never holds more than 10 entries; a
\* PreCompact event on a full list drops the oldest entry and puts the new
\* backup last, on a shorter list it only puts the new backup last, so the
\* list holds the most recent backups in capture order; with no session the
\* event adds nothing.
C38_BackupRingBounded ==
    [][/\ View(Root)' # None => Len(View(Root)'.backups) <= 10
       /\ (on_pre_compact(Root) /\ View(Root) # None) =>
            LET old == View(Root).backups
                new == View(Root)'.backups
            IN /\ new # <<>>
               /\ new[Len(new)].iteration = View(Root).iteration
               /\ SubSeq(new, 1, Len(new) - 1) =
                     IF Len(old) = 10 THEN Tail(old) ELSE old
       /\ (on_pre_compact(Root) /\ View(Root) = None) =>
            /\ View(Root)' = None /\ state_file' = state_file
            /\ raised' = NoError]_vars
C38_Witness ==
    /\ View(Root) # None /\ Len(View(Root).backups) = 10
    /\ mutations = MaxCompactEvents - 12 /\ Cardinality(unused) = Cardinality(IdPool) - 1
    /\ View(Root).iteration = 2
    /\ View(Root).backups[1].iteration = 2 /\ View(Root).backups[10].iteration = 2

\* C39: the history of stopped agents never holds more than 50 entries and
\* loses its oldest entry first; a SubagentStop for a running agent takes it
\* out of the running table and puts it last in the history with status
\* completed or failed and an end time; a SubagentStop for an id that is not
\* running changes neither table; every agent in the running table has
\* status running.
C39_SubagentTracking ==
    [][/\ Len(agent_history') <= 50
       /\ \A i \in DOMAIN active_agents' : active_agents'[i].status = "running"
       /\ \A input_data \in SubagentStopInputs : on_subagent_stop(input_data) =>
            LET agent_id == Get(input_data, "agent_id", "")
            IN IF AgentAt(active_agents, agent_id) # {}
               THEN /\ AgentAt(active_agents', agent_id) = {}
                    /\ \A a \in Range(active_agents) :
                          a.id # agent_id => a \in Range(active_agents')
                    /\ agent_history' # <<>>
                    /\ LET last == agent_history'[Len(agent_history')]
                       IN /\ last.id = agent_id
                          /\ last.status \in {"completed", "failed"}
                          /\ last.end_time # <<>>
                    /\ SubSeq(agent_history', 1, Len(agent_history') - 1) =
                          IF Len(agent_history) = 50 THEN Tail(agent_history)
                          ELSE agent_history
               ELSE /\ active_agents' = active_agents
                    /\ agent_history' = agent_history]_vars
C39_Witness ==
    /\ Len(agent_history) = 50
    /\ agent_history[1].status = "completed" /\ agent_history[1].id = "a2"
    /\ agent_history[50].status = "failed" /\ agent_history[50].end_time = <<1>>
    /\ active_agents # <<>>

Refused(input_data) ==
    \/ input_data.tool_name = "Bash" /\ DestructiveCommand(input_data.command)
    \/ /\ input_data.tool_name \in {"Write", "Edit"}
       /\ ProtectedPath(input_data.file_path)

====
